---- MODULE Spec2Model ----
(***************************************************************************)
(* A model of the state-transition core of Sovgut/datagrid: the two        *)
(* DataGridReducer variants (single `command` tag and `commands` list)     *)
(* and the imperative surface of the DataGrid component that builds the    *)
(* actions and dispatches them.                                            *)
(***************************************************************************)
EXTENDS Integers, Sequences, FiniteSets, TLC

VARIABLES
    state,                   \* DataGrid: the reducer state the component reads
    prev,                    \* DataGrid: the state before the last dispatch
    lastCall,                \* DataGrid: name of the last imperative call
    lastAction,              \* DataGrid: the action that call dispatched
    orderRun,                \* DataGrid: orders produced by consecutive toggleOrder calls
    initialPage,             \* DataGrid prop
    resetPageOnQueryChange,  \* DataGrid prop
    size,                    \* DataGrid prop
    rstate,                  \* reducer harness: the state handed to the reducer
    raction,                 \* reducer harness: the action handed to the reducer
    rresult,                 \* reducer harness: the state the reducer returned
    rpc,                     \* reducer harness: "ready" | "done" | "off"
    cin,                     \* CleanSense harness: the filter object before the passes
    cflags,                  \* CleanSense harness: the four clear flags
    cout,                    \* CleanSense harness: the filter object after the passes
    cpc,                     \* CleanSense harness: "ready" | "done" | "passes" | "off"
    cpasses,                 \* CleanSense harness: the passes called so far, in order
    DEBOUNCE_HASH_MAP,       \* debounce: the module-level map from key to timer id
    timers,                  \* runtime: the timers set by setTimeout and not yet run or cleared
    nextTimeout,             \* runtime: the id the next setTimeout returns
    calls,                   \* debounce harness: the debounce calls made so far
    ran,                     \* debounce harness: the callbacks run so far
    prevFilter,              \* DataGrid: prevFilter.current
    columns,                 \* DataGrid prop
    clear,                   \* DataGrid props: the four clear flags
    effects,                 \* notifier: what the change effect did in each render
    onChangeCalls,           \* notifier: the calls of the onChange prop so far
    heap,                    \* object store: the objects allocated so far, by address
    stateRef,                \* object store: address of the state object useReducer holds
    detailsRef,              \* object store: address of the last details.filter, 0 if none
    snapRef,                 \* object store: address of a state object kept by an observer
    snapshot,                \* object store: content of that object when it was kept
    produced,                \* object store: the query the reducer function returns
    dispatched,              \* object store: number of dispatches so far
    fnArgs,                  \* function harness: the arguments of the call
    fnResult,                \* function harness: what the call returned or threw
    fnPc,                    \* function harness: "ready" | "done" | "off"
    dsStore,                 \* DataSource: the state the store holds
    dsProps,                 \* DataSource props: columns, resetPageOnQueryChange
    dsOp,                    \* DataSource: the last operation
    dsBefore,                \* DataSource: the stored state before that operation
    dsCalls,                 \* DataSource: the callbacks that operation invoked
    dsArgs                   \* DataSource: the arguments of that operation

vars == <<state, prev, lastCall, lastAction, orderRun, initialPage,
          resetPageOnQueryChange, size, rstate, raction, rresult, rpc,
          cin, cflags, cout, cpc, cpasses, DEBOUNCE_HASH_MAP, timers, nextTimeout, calls, ran,
          prevFilter, columns, clear, effects, onChangeCalls,
          heap, stateRef, detailsRef, snapRef, snapshot, produced, dispatched,
          fnArgs, fnResult, fnPc, dsStore, dsProps, dsOp, dsBefore, dsCalls, dsArgs>>

gridVars == <<state, prev, lastCall, lastAction, orderRun, initialPage,
              resetPageOnQueryChange, size>>

harnessVars == <<rstate, raction, rresult, rpc>>

cleanVars == <<cin, cflags, cout, cpc, cpasses>>

timerVars == <<DEBOUNCE_HASH_MAP, timers, nextTimeout>>

debounceVars == <<DEBOUNCE_HASH_MAP, timers, nextTimeout, calls, ran>>

notifyVars == <<prevFilter, columns, clear, effects, onChangeCalls>>

heapVars == <<heap, stateRef, detailsRef, snapRef, snapshot, produced, dispatched>>

\* the variables the DataGrid calls and the reducer harness leave alone
fnVars == <<fnArgs, fnResult, fnPc>>

\* the variables of the harnesses that stand beside the object store
dsVars == <<dsStore, dsProps, dsOp, dsBefore, dsCalls, dsArgs>>

extraVars == <<fnVars, dsVars>>

auxVars == <<cleanVars, debounceVars, notifyVars, heapVars, extraVars>>

----------------------------------------------------------------------------
(* Bounds of the model.                                                    *)

MaxPage == 2

MaxCommands == 2

----------------------------------------------------------------------------
(* Program constants.                                                      *)

DEFAULT_PAGE == 1

DEFAULT_LIMIT == 10

NULL == "<null>"

UNDEFINED == "<undefined>"

DEFAULT_SORT == NULL

DEFAULT_ORDER == NULL

DEFAULT_FILTER == << >>

SORT_ASC == "asc"

SORT_DESC == "desc"

RESET_PAGE_ON_QUERY_CHANGE == TRUE

DataGridCommand ==
    {"SetPage", "SetLimit", "SetSort", "SetOrder", "SetFilter", "ReplaceFilter",
     "RemoveFilter", "ClearFilter", "ClearSort", "ClearOrder", "ClearAll",
     "ToggleOrder"}

----------------------------------------------------------------------------
(* Filter values and filter maps.  A filter map is a JavaScript object:    *)
(* its keys are unique and keep their insertion order, so it is modelled   *)
(* as a sequence of entries [k, v] without repeated keys.  A value is a    *)
(* tagged record, so that null, undefined, strings and arrays stay         *)
(* distinct.  An array is an object: besides its elements it has an        *)
(* identity `id` (a tuple of numbers), and Object.is on two arrays         *)
(* compares the identities.  Primitive values carry the empty identity.    *)

Str(s) == [t |-> "string", s |-> s, a |-> << >>, id |-> << >>]

Null == [t |-> "null", s |-> "", a |-> << >>, id |-> << >>]

Undef == [t |-> "undefined", s |-> "", a |-> << >>, id |-> << >>]

\* the array object with identity id and elements a
ArrAt(id, a) == [t |-> "array", s |-> "", a |-> a, id |-> id]

\* an array literal
Arr(a) == ArrAt(<<0>>, a)

IsArray(v) == v.t = "array"

Entry(k, v) == [k |-> k, v |-> v]

\* Object.keys(f) as a set
Keys(f) == {f[i].k : i \in 1..Len(f)}

\* `k in f`
Has(f, k) == \E i \in 1..Len(f) : f[i].k = k

\* f[k]: the value stored under k, undefined when the key is absent
Get(f, k) ==
    IF Has(f, k) THEN f[CHOOSE i \in 1..Len(f) : f[i].k = k].v ELSE Undef

\* the number a key denotes when it is the canonical form of an array index
\* ("0", "1", "2", ...), -1 for any other key
ArrayIndex(k) ==
    CASE k = "0" -> 0
      [] k = "1" -> 1
      [] k = "2" -> 2
      [] OTHER -> -1

\* f[k] = v on an object, whose entries are kept in the order its own keys are
\* enumerated (for...in, Object.keys, spread): array-index keys first, in
\* ascending order, then the other keys in the order they were added.  An
\* existing key keeps its position.
Put(f, k, v) ==
    IF Has(f, k)
    THEN [i \in 1..Len(f) |-> IF f[i].k = k THEN Entry(k, v) ELSE f[i]]
    ELSE IF ArrayIndex(k) < 0 THEN Append(f, Entry(k, v))
    ELSE LET before == Cardinality({i \in 1..Len(f) :
                                       /\ ArrayIndex(f[i].k) >= 0
                                       /\ ArrayIndex(f[i].k) < ArrayIndex(k)})
         IN  SubSeq(f, 1, before) \o <<Entry(k, v)>> \o SubSeq(f, before + 1, Len(f))

\* A plausible slip: the payload replaces the prior filter instead of merging into it.
Spread_Replace(f, g) == g

\* { ...f, ...g }
RECURSIVE Spread(_, _)
Spread(f, g) ==
    IF g = << >> THEN f
    ELSE Spread(Put(f, Head(g).k, Head(g).v), Tail(g))

\* the allocation rounds of the arrays a filter object holds
Rounds(f) == {Head(f[i].v.id) : i \in {j \in 1..Len(f) : IsArray(f[j].v)}}

\* Objects created while one transition is handled get identities of a round no
\* array reachable from the filter f belongs to.
NewRound(f) == CHOOSE n \in 1..(Len(f) + 1) :
                   /\ n \notin Rounds(f)
                   /\ \A m \in 1..(n - 1) : m \in Rounds(f)

\* a value the caller has just built: an array is a new object
Fresh(v, f) == IF IsArray(v) THEN ArrAt(<<NewRound(f), 0>>, v.a) ELSE v

\* structuredClone(state): a deep copy, every array of the copy is a new object
StructuredClone(s) ==
    [s EXCEPT !.filter =
        [i \in 1..Len(s.filter) |->
            IF IsArray(s.filter[i].v)
            THEN Entry(s.filter[i].k, ArrAt(<<NewRound(s.filter), i>>, s.filter[i].v.a))
            ELSE s.filter[i]]]

----------------------------------------------------------------------------
(* CleanSense: the four passes that clean a filter object in place.  Each  *)
(* operator gives the content of `reference` after the call.               *)

\* value.filter((v) => v !== bad)
FilterOut(a, bad) == SelectSeq(a, LAMBDA v : v # bad)

\* the value left under a key by a pass that removes `bad`: an array that held
\* `bad` is replaced by a new, filtered array; anything else stays as it is
Cleaned(v, bad) ==
    IF IsArray(v) /\ Len(FilterOut(v.a, bad)) # Len(v.a)
    THEN ArrAt(Append(v.id, 0), FilterOut(v.a, bad))
    ELSE v

\* Object.keys(reference).forEach: delete the key when its value is `bad`,
\* filter `bad` out of an array value
CleanPass(reference, bad) ==
    LET kept == SelectSeq(reference, LAMBDA e : e.v # bad)
    IN  [i \in 1..Len(kept) |-> Entry(kept[i].k, Cleaned(kept[i].v, bad))]

\* A plausible slip: the null pass also deletes a key left with an empty array.
CleanSenseNull_DropsEmptied(reference) ==
    SelectSeq(CleanPass(reference, Null),
              LAMBDA e : ~(IsArray(e.v) /\ Len(e.v.a) = 0))

\* CleanSense.null
CleanSenseNull(reference) == CleanPass(reference, Null)

\* CleanSense.undefined
CleanSenseUndefined(reference) == CleanPass(reference, Undef)

\* A plausible slip: the string pass deletes keys but leaves arrays alone.
CleanSenseString_KeysOnly(reference) ==
    SelectSeq(reference, LAMBDA e : e.v # Str(""))

\* CleanSense.string
CleanSenseString(reference) == CleanPass(reference, Str(""))

\* CleanSense.array: delete the keys that hold an empty array
CleanSenseArray(reference) ==
    SelectSeq(reference, LAMBDA e : ~(IsArray(e.v) /\ Len(e.v.a) = 0))

\* A plausible slip: the empty-array pass runs first.
Sanitize_ArrayFirst(filter, flags) ==
    LET f0 == IF flags.clearEmptyArray THEN CleanSenseArray(filter) ELSE filter
        f1 == IF flags.clearNullable THEN CleanSenseNull(f0) ELSE f0
        f2 == IF flags.clearUndefined THEN CleanSenseUndefined(f1) ELSE f1
    IN  IF flags.clearEmptyString THEN CleanSenseString(f2) ELSE f2

\* the four conditional passes of the change effect, in its order
Sanitize(filter, flags) ==
    LET f1 == IF flags.clearNullable THEN CleanSenseNull(filter) ELSE filter
        f2 == IF flags.clearUndefined THEN CleanSenseUndefined(f1) ELSE f1
        f3 == IF flags.clearEmptyString THEN CleanSenseString(f2) ELSE f2
    IN  IF flags.clearEmptyArray THEN CleanSenseArray(f3) ELSE f3

----------------------------------------------------------------------------
(* extractChangedKey.  A dependency is a filter object or undefined: it is *)
(* modelled as a sequence holding the object, or as the empty sequence.    *)

None == << >>

Some(f) == <<f>>

\* A plausible slip: two arrays are compared by their elements.
ValueChanged_ByContent(prevValue, nextValue) ==
    IF IsArray(prevValue) /\ IsArray(nextValue)
    THEN prevValue.a # nextValue.a
    ELSE prevValue # nextValue

\* the test extractChangedKey applies to one key of `next`
ValueChanged(prevValue, nextValue) ==
    IF IsArray(prevValue) /\ IsArray(nextValue)
    THEN Len(prevValue.a) # Len(nextValue.a) \/ prevValue.id # nextValue.id
    ELSE prevValue # nextValue

\* extractChangedKey([prev, next]): the first key of next, in its key order, whose
\* value differs from prev's; null when there is none
extractChangedKey(deps) ==
    LET previous == deps[1]
        next == deps[2]
    IN  IF next = None THEN NULL
        ELSE LET f == next[1]
                 changed == {i \in 1..Len(f) :
                                \/ previous = None
                                \/ ValueChanged(Get(previous[1], f[i].k), f[i].v)}
             IN  IF changed = {} THEN NULL
                 ELSE f[CHOOSE i \in changed : \A j \in changed : i <= j].k

----------------------------------------------------------------------------
(* debounce and the timers of the JavaScript runtime.  A timer is a record *)
(* [id, key, callback, delay, age]: `age` counts the time units since      *)
(* setTimeout, and the timer may run once age has reached delay.           *)

\* clearTimeout(id): a timer that already ran or was cleared is not in the set
clearTimeout(T, id) == {tm \in T : tm.id # id}

\* setTimeout(() => { callback(); DEBOUNCE_HASH_MAP.delete(key) }, delay)
setTimeout(T, id, key, callback, delay) ==
    T \cup {[id |-> id, key |-> key, callback |-> callback, delay |-> delay,
              age |-> 0]}

\* DEBOUNCE_HASH_MAP.set(key, timeout)
MapSet(map, key, timeout) ==
    [k \in DOMAIN map \cup {key} |-> IF k = key THEN timeout ELSE map[k]]

\* DEBOUNCE_HASH_MAP.delete(key)
MapDelete(map, key) == [k \in DOMAIN map \ {key} |-> map[k]]

\* A plausible slip: the pending timer of the key is not cleared.
debounce_NoClear(key, callback, delay) ==
    /\ timers' = setTimeout(timers, nextTimeout, key, callback, delay)
    /\ DEBOUNCE_HASH_MAP' = MapSet(DEBOUNCE_HASH_MAP, key, nextTimeout)
    /\ nextTimeout' = nextTimeout + 1

\* A plausible slip: one timer is shared by all the keys.
debounce_OneTimer(key, callback, delay) ==
    /\ timers' = setTimeout({}, nextTimeout, key, callback, delay)
    /\ DEBOUNCE_HASH_MAP' = MapSet(<< >>, key, nextTimeout)
    /\ nextTimeout' = nextTimeout + 1

\* debounce(key, callback, delay)
debounce(key, callback, delay) ==
    LET cleared == IF key \in DOMAIN DEBOUNCE_HASH_MAP
                   THEN clearTimeout(timers, DEBOUNCE_HASH_MAP[key])
                   ELSE timers
    IN  /\ timers' = setTimeout(cleared, nextTimeout, key, callback, delay)
        /\ DEBOUNCE_HASH_MAP' = MapSet(DEBOUNCE_HASH_MAP, key, nextTimeout)
        /\ nextTimeout' = nextTimeout + 1

\* the timer tm is due
Due(tm) == tm.age >= tm.delay

\* the runtime runs the due timer tm: after its callback, DEBOUNCE_HASH_MAP.delete(key)
RunTimer(tm) ==
    /\ tm \in timers
    /\ Due(tm)
    /\ timers' = timers \ {tm}
    /\ DEBOUNCE_HASH_MAP' = MapDelete(DEBOUNCE_HASH_MAP, tm.key)
    /\ UNCHANGED nextTimeout

\* one unit of time passes; a due timer runs before more time passes
Elapse ==
    /\ timers # {}
    /\ \A tm \in timers : ~Due(tm)
    /\ timers' = {[tm EXCEPT !.age = tm.age + 1] : tm \in timers}
    /\ UNCHANGED <<DEBOUNCE_HASH_MAP, nextTimeout>>

----------------------------------------------------------------------------
(* The single-command DataGridReducer.                                     *)

\* A plausible slip: no command resets the page.
ShouldResetPage_Never(action) == FALSE

\* A plausible slip: a change of limit keeps the page.
ShouldResetPage_NotLimit(action) ==
    action.command \in {"SetSort", "SetOrder", "ToggleOrder",
                        "ReplaceFilter", "ClearFilter", "ClearOrder", "ClearSort"}

ShouldResetPage(action) ==
    action.command \in {"SetLimit", "SetSort", "SetOrder", "ToggleOrder",
                        "ReplaceFilter", "ClearFilter", "ClearOrder", "ClearSort"}

\* A plausible slip: ReplaceFilter merges like SetFilter.
ReplaceFilterCase_Merge(clone, action) ==
    [clone EXCEPT !.filter = Spread(clone.filter, action.filter)]

ReplaceFilterCase(clone, action) == [clone EXCEPT !.filter = action.filter]

\* the switch over action.command
SwitchCommand(clone, command, action) ==
    CASE command = "SetPage" -> [clone EXCEPT !.page = action.page]
      [] command = "SetLimit" -> [clone EXCEPT !.limit = action.limit]
      [] command = "SetSort" -> [clone EXCEPT !.sort = action.sort]
      [] command \in {"SetOrder", "ToggleOrder"} -> [clone EXCEPT !.order = action.order]
      [] command \in {"SetFilter", "RemoveFilter"} ->
            [clone EXCEPT !.filter = Spread(clone.filter, action.filter)]
      [] command = "ReplaceFilter" -> ReplaceFilterCase(clone, action)
      [] command = "ClearFilter" -> [clone EXCEPT !.filter = << >>]
      [] command = "ClearOrder" -> [clone EXCEPT !.order = NULL]
      [] command = "ClearSort" -> [clone EXCEPT !.sort = NULL]
      [] OTHER -> clone

DataGridReducer(s, action) ==
    LET clone == [StructuredClone(s) EXCEPT !.command = action.command]
        updated == SwitchCommand(clone, action.command, action)
    IN  IF ShouldResetPage(action)
        THEN [updated EXCEPT !.page = action.page]
        ELSE updated

----------------------------------------------------------------------------
(* The commands-list DataGridReducer.                                      *)

pageResettingCommands ==
    {"SetLimit", "SetSort", "SetOrder", "ToggleOrder", "ReplaceFilter",
     "ClearFilter", "ClearOrder", "ClearSort"}

\* A plausible slip: a command without a case of its own clears the filter.
ForEachCase_DefaultClears(clone, command, action) ==
    CASE command = "SetPage" -> [clone EXCEPT !.page = action.page]
      [] command = "SetLimit" -> [clone EXCEPT !.limit = action.limit]
      [] command = "SetSort" -> [clone EXCEPT !.sort = action.sort]
      [] command \in {"SetOrder", "ToggleOrder"} -> [clone EXCEPT !.order = action.order]
      [] command \in {"SetFilter", "RemoveFilter"} ->
            [clone EXCEPT !.filter = Spread(clone.filter, action.filter)]
      [] command = "ReplaceFilter" -> [clone EXCEPT !.filter = action.filter]
      [] command = "ClearOrder" -> [clone EXCEPT !.order = NULL]
      [] command = "ClearSort" -> [clone EXCEPT !.sort = NULL]
      [] OTHER -> [clone EXCEPT !.filter = << >>]

\* the switch inside action.commands.forEach
ForEachCase(clone, command, action) ==
    CASE command = "SetPage" -> [clone EXCEPT !.page = action.page]
      [] command = "SetLimit" -> [clone EXCEPT !.limit = action.limit]
      [] command = "SetSort" -> [clone EXCEPT !.sort = action.sort]
      [] command \in {"SetOrder", "ToggleOrder"} -> [clone EXCEPT !.order = action.order]
      [] command \in {"SetFilter", "RemoveFilter"} ->
            [clone EXCEPT !.filter = Spread(clone.filter, action.filter)]
      [] command = "ReplaceFilter" -> [clone EXCEPT !.filter = action.filter]
      [] command = "ClearFilter" -> [clone EXCEPT !.filter = << >>]
      [] command = "ClearOrder" -> [clone EXCEPT !.order = NULL]
      [] command = "ClearSort" -> [clone EXCEPT !.sort = NULL]
      [] OTHER -> clone

\* A plausible slip: the loop returns after the first command.
ForEachCommand_FirstOnly(clone, commands, action) ==
    IF commands = << >> THEN clone
    ELSE ForEachCase(clone, Head(commands), action)

\* action.commands.forEach(...), in list order
RECURSIVE ForEachCommand(_, _, _)
ForEachCommand(clone, commands, action) ==
    IF commands = << >> THEN clone
    ELSE ForEachCommand(ForEachCase(clone, Head(commands), action),
                        Tail(commands), action)

\* an action object may carry no `commands` property at all
HasCommands(action) == "commands" \in DOMAIN action

\* A plausible slip: the page is reset before the commands are applied.
DataGridReducerCommands_ResetFirst(s, action) ==
    IF ~HasCommands(action) THEN [StructuredClone(s) EXCEPT !.commands = UNDEFINED]
    ELSE
    LET clone == [StructuredClone(s) EXCEPT !.commands = action.commands]
        shouldResetPage ==
            \E i \in 1..Len(action.commands) :
                action.commands[i] \in pageResettingCommands
    IN  IF Len(action.commands) = 0 THEN clone
        ELSE ForEachCommand(
                 IF shouldResetPage THEN [clone EXCEPT !.page = DEFAULT_PAGE] ELSE clone,
                 action.commands, action)

\* clone.commands = action.commands; if (!action.commands?.length) return clone; ...
DataGridReducerCommands(s, action) ==
    IF ~HasCommands(action) THEN [StructuredClone(s) EXCEPT !.commands = UNDEFINED]
    ELSE
    LET clone == [StructuredClone(s) EXCEPT !.commands = action.commands]
        shouldResetPage ==
            \E i \in 1..Len(action.commands) :
                action.commands[i] \in pageResettingCommands
        applied == ForEachCommand(clone, action.commands, action)
    IN  IF Len(action.commands) = 0 THEN clone
        ELSE IF shouldResetPage THEN [applied EXCEPT !.page = DEFAULT_PAGE]
        ELSE applied

----------------------------------------------------------------------------
(* The DataGrid component: its props, the state it reads from the shared   *)
(* reducer and the imperative calls that build an action and dispatch it.  *)

Limits == {DEFAULT_LIMIT, 2 * DEFAULT_LIMIT}

SortKeys == {"name"}

Orders == {SORT_ASC, SORT_DESC, NULL}

FilterKeys == {"name", "tags"}

FilterValues == {Str("a"), Null}

ReplaceFilters ==
    {<< >>, <<Entry("tags", Str("a"))>>,
     <<Entry("city", Str("NY")), Entry("name", Str("a"))>>}

Sizes == {20}

\* the page, limit, sort, order and filter of a reducer state
Query(s) ==
    [page |-> s.page, limit |-> s.limit, sort |-> s.sort, order |-> s.order,
     filter |-> s.filter]

\* the reducer state useSharedDataGrid() starts from
SharedInitialState ==
    [filter |-> DEFAULT_FILTER, limit |-> DEFAULT_LIMIT, order |-> DEFAULT_ORDER,
     page |-> DEFAULT_PAGE, sort |-> DEFAULT_SORT, command |-> UNDEFINED]

NoAction == [command |-> UNDEFINED]

\* A plausible slip: the last page is taken to have a next page when it is full.
hasNextPage_Inclusive == state.page * state.limit <= size

hasNextPage == state.page * state.limit < size

hasPrevPage == state.page > 1

\* page: resetPageOnQueryChange ? initialPage : state.page
ResetTarget == IF resetPageOnQueryChange THEN initialPage ELSE state.page

\* A plausible slip: the cycle skips the absent order.
NextOrder_TwoState(order) == IF order = SORT_ASC THEN SORT_DESC ELSE SORT_ASC

\* state.order === SORT_ASC ? SORT_DESC : state.order === SORT_DESC ? null : SORT_ASC
NextOrder(order) ==
    IF order = SORT_ASC THEN SORT_DESC
    ELSE IF order = SORT_DESC THEN NULL
    ELSE SORT_ASC

\* the orders produced by the run of consecutive toggleOrder calls that started
\* from an absent order (kept up to three calls)
NextOrderRun(call, before, after) ==
    IF call # "toggleOrder" THEN << >>
    ELSE IF Len(orderRun) \in {1, 2} THEN Append(orderRun, after)
    ELSE IF before \in {NULL, UNDEFINED} THEN <<after>>
    ELSE << >>

\* dispatch(action) from the imperative call `call`: the reducer gives the state of
\* the next render
Reduced(call, action) ==
    /\ state' = DataGridReducer(state, action)
    /\ prev' = Query(state)
    /\ lastCall' = call
    /\ lastAction' = action
    /\ orderRun' = NextOrderRun(call, state.order, state'.order)
    /\ UNCHANGED <<initialPage, resetPageOnQueryChange, size>>

\* dispatch(action), without the change effect of the render that follows
Dispatch(call, action) ==
    /\ Reduced(call, action)
    /\ UNCHANGED harnessVars
    /\ UNCHANGED auxVars

\* a call whose guard fails dispatches nothing
NoDispatch(call) ==
    /\ prev' = Query(state)
    /\ lastCall' = call
    /\ lastAction' = NoAction
    /\ orderRun' = << >>
    /\ UNCHANGED <<state, initialPage, resetPageOnQueryChange, size>>
    /\ UNCHANGED harnessVars
    /\ UNCHANGED auxVars

setPage(page) == Dispatch("setPage", [command |-> "SetPage", page |-> page])

nextPage ==
    IF hasNextPage
    THEN Dispatch("nextPage", [command |-> "SetPage", page |-> state.page + 1])
    ELSE NoDispatch("nextPage")

prevPage ==
    IF hasPrevPage
    THEN Dispatch("prevPage", [command |-> "SetPage", page |-> state.page - 1])
    ELSE NoDispatch("prevPage")

setLimit(limit) ==
    Dispatch("setLimit",
             [command |-> "SetLimit", limit |-> limit, page |-> ResetTarget])

setSort(sort) ==
    Dispatch("setSort", [command |-> "SetSort", sort |-> sort, page |-> ResetTarget])

clearSort ==
    Dispatch("clearSort", [command |-> "ClearSort", sort |-> NULL, page |-> ResetTarget])

setOrder(order) ==
    Dispatch("setOrder",
             [command |-> "SetOrder", order |-> order, page |-> ResetTarget])

toggleOrder ==
    Dispatch("toggleOrder",
             [command |-> "ToggleOrder", order |-> NextOrder(state.order),
              page |-> ResetTarget])

clearOrder ==
    Dispatch("clearOrder",
             [command |-> "ClearOrder", order |-> NULL, page |-> ResetTarget])

setFilter(key, value) ==
    Dispatch("setFilter",
             [command |-> "SetFilter", filter |-> <<Entry(key, value)>>,
              page |-> ResetTarget])

removeFilter(key) ==
    Dispatch("removeFilter",
             [command |-> "RemoveFilter", filter |-> <<Entry(key, Undef)>>,
              page |-> ResetTarget])

replaceFilter(value) ==
    Dispatch("replaceFilter",
             [command |-> "ReplaceFilter", filter |-> value, page |-> ResetTarget])

clearFilter ==
    Dispatch("clearFilter", [command |-> "ClearFilter", page |-> ResetTarget])

AllFlags ==
    [clearNullable |-> TRUE, clearUndefined |-> TRUE, clearEmptyString |-> TRUE,
     clearEmptyArray |-> TRUE]

\* the CleanSense harness is used by its own specification only
CleanOff ==
    /\ cpc = "off"
    /\ cin = << >>
    /\ cflags = AllFlags
    /\ cout = << >>
    /\ cpasses = << >>

\* the map is empty when the module is loaded, and no timer is set
TimersInit ==
    /\ DEBOUNCE_HASH_MAP = << >>
    /\ timers = {}
    /\ nextTimeout = 1

\* debounce is called by the debounce harness and by the change effect only
DebounceOff ==
    /\ TimersInit
    /\ calls = << >>
    /\ ran = << >>

\* the change effect is modelled by the notifier specification only
NotifyOff ==
    /\ prevFilter = DEFAULT_FILTER
    /\ columns = << >>
    /\ clear = AllFlags
    /\ effects = << >>
    /\ onChangeCalls = << >>

\* objects are modelled by value outside the object-store specification
HeapOff ==
    /\ heap = << >>
    /\ stateRef = 0
    /\ detailsRef = 0
    /\ snapRef = 0
    /\ snapshot = Query(SharedInitialState)
    /\ produced = Query(SharedInitialState)
    /\ dispatched = 0

FnOff ==
    /\ fnArgs = << >>
    /\ fnResult = << >>
    /\ fnPc = "off"

DsOff ==
    /\ dsStore = << >>
    /\ dsProps = << >>
    /\ dsOp = "off"
    /\ dsBefore = << >>
    /\ dsCalls = << >>
    /\ dsArgs = << >>

ExtraOff == FnOff /\ DsOff

AuxOff == CleanOff /\ DebounceOff /\ NotifyOff /\ HeapOff /\ ExtraOff

\* the reducer harness is not used by the component's specification
HarnessOff ==
    /\ rpc = "off"
    /\ rstate = SharedInitialState
    /\ raction = NoAction
    /\ rresult = SharedInitialState

Init ==
    /\ state = SharedInitialState
    /\ prev = Query(SharedInitialState)
    /\ lastCall = "init"
    /\ lastAction = NoAction
    /\ orderRun = << >>
    /\ initialPage \in 1..MaxPage
    /\ resetPageOnQueryChange \in BOOLEAN
    /\ size \in Sizes
    /\ HarnessOff
    /\ AuxOff

Next ==
    \/ \E page \in 1..MaxPage : setPage(page)
    \/ nextPage
    \/ prevPage
    \/ \E limit \in Limits : setLimit(limit)
    \/ \E sort \in SortKeys : setSort(sort)
    \/ clearSort
    \/ \E order \in Orders : setOrder(order)
    \/ toggleOrder
    \/ clearOrder
    \/ \E key \in FilterKeys, value \in FilterValues : setFilter(key, value)
    \/ \E key \in FilterKeys : removeFilter(key)
    \/ \E value \in ReplaceFilters : replaceFilter(value)
    \/ clearFilter

Spec == Init /\ [][Next]_vars

\* the grid driven without setPage: paging by nextPage and prevPage only
NextBrowse ==
    \/ nextPage
    \/ prevPage
    \/ \E limit \in Limits : setLimit(limit)
    \/ \E sort \in SortKeys : setSort(sort)
    \/ \E order \in Orders : setOrder(order)
    \/ toggleOrder
    \/ \E key \in FilterKeys, value \in FilterValues : setFilter(key, value)
    \/ \E key \in FilterKeys : removeFilter(key)
    \/ \E value \in ReplaceFilters : replaceFilter(value)
    \/ clearFilter

SpecBrowse == Init /\ [][NextBrowse]_vars

----------------------------------------------------------------------------
(* The reducer harness: one call of a reducer on a state and an action     *)
(* drawn from bounded sets.                                                *)

HarnessFilters == {<< >>, <<Entry("name", Str("a")), Entry("city", Str("NY"))>>}

PayloadFilters ==
    {<< >>, <<Entry("name", Str("b"))>>,
     <<Entry("tags", Str("x")), Entry("name", Undef)>>}

HarnessQueries ==
    [page : 1..MaxPage, limit : {DEFAULT_LIMIT}, sort : {NULL, "name"},
     order : {NULL, SORT_ASC}, filter : HarnessFilters]

Payloads ==
    [page : 1..MaxPage, limit : {2 * DEFAULT_LIMIT}, sort : {"id"},
     order : {SORT_DESC, UNDEFINED}, filter : PayloadFilters]

\* the sequences over S of length at most n
RECURSIVE SeqsUpTo(_, _)
SeqsUpTo(S, n) ==
    IF n = 0 THEN {<< >>}
    ELSE LET shorter == SeqsUpTo(S, n - 1)
         IN  shorter \cup {Append(q, c) : q \in shorter, c \in S}

CommandLists == SeqsUpTo(DataGridCommand, MaxCommands)

WithCommand(q, command) ==
    [page |-> q.page, limit |-> q.limit, sort |-> q.sort, order |-> q.order,
     filter |-> q.filter, command |-> command]

WithCommands(q, commands) ==
    [page |-> q.page, limit |-> q.limit, sort |-> q.sort, order |-> q.order,
     filter |-> q.filter, commands |-> commands]

GridOff ==
    /\ state = SharedInitialState
    /\ prev = Query(SharedInitialState)
    /\ lastCall = "off"
    /\ lastAction = NoAction
    /\ orderRun = << >>
    /\ initialPage = DEFAULT_PAGE
    /\ resetPageOnQueryChange = RESET_PAGE_ON_QUERY_CHANGE
    /\ size = 0

InitSingle ==
    /\ GridOff
    /\ AuxOff
    /\ rpc = "ready"
    /\ \E q \in HarnessQueries : rstate = WithCommand(q, UNDEFINED)
    /\ \E p \in Payloads, c \in DataGridCommand \cup {UNDEFINED} :
           raction = WithCommand(p, c)
    /\ rresult = rstate

ReduceSingle ==
    /\ rpc = "ready"
    /\ rresult' = DataGridReducer(rstate, raction)
    /\ rpc' = "done"
    /\ UNCHANGED <<rstate, raction>>
    /\ UNCHANGED gridVars
    /\ UNCHANGED auxVars

SpecSingle == InitSingle /\ [][ReduceSingle]_vars

InitCommands ==
    /\ GridOff
    /\ AuxOff
    /\ rpc = "ready"
    /\ \E q \in HarnessQueries : rstate = WithCommands(q, << >>)
    /\ \/ \E p \in Payloads, cs \in CommandLists : raction = WithCommands(p, cs)
       \/ \E p \in Payloads : raction = p
    /\ rresult = rstate

ReduceCommands ==
    /\ rpc = "ready"
    /\ rresult' = DataGridReducerCommands(rstate, raction)
    /\ rpc' = "done"
    /\ UNCHANGED <<rstate, raction>>
    /\ UNCHANGED gridVars
    /\ UNCHANGED auxVars

SpecCommands == InitCommands /\ [][ReduceCommands]_vars

----------------------------------------------------------------------------
(* The CleanSense harness: the passes of the change effect applied once to *)
(* a filter object drawn from a bounded set, under each choice of flags.   *)

MaxArrayLen == 2

CleanKeys == {"name", "tags"}

ArrayElements == {Str(""), Null, Undef, Str("x")}

CleanValues ==
    {Str(""), Str("NY"), Null, Undef}
        \cup {Arr(a) : a \in SeqsUpTo(ArrayElements, MaxArrayLen)}

\* the filter objects with at most two keys, in either insertion order, and one
\* object with a key of every kind
CleanFilters ==
    {<< >>}
        \cup {<<Entry(k, v)>> : k \in CleanKeys, v \in CleanValues}
        \cup {<<Entry(k1, v1), Entry(k2, v2)>> :
                  <<k1, k2>> \in {kk \in CleanKeys \X CleanKeys : kk[1] # kk[2]},
                  <<v1, v2>> \in CleanValues \X CleanValues}
        \cup {<<Entry("name", Str("")), Entry("tags", Arr(<< >>)), Entry("id", Null),
                Entry("note", Undef), Entry("city", Str("NY"))>>}

ClearFlags ==
    [clearNullable : BOOLEAN, clearUndefined : BOOLEAN, clearEmptyString : BOOLEAN,
     clearEmptyArray : BOOLEAN]

InitClean ==
    /\ GridOff
    /\ HarnessOff
    /\ DebounceOff
    /\ NotifyOff
    /\ HeapOff
    /\ ExtraOff
    /\ cpc = "ready"
    /\ cin \in CleanFilters
    /\ cflags \in ClearFlags
    /\ cout = cin
    /\ cpasses = << >>

\* details.filter = { ...state.filter } followed by the enabled passes
SanitizeStep ==
    /\ cpc = "ready"
    /\ cout' = Sanitize(Spread(<< >>, cin), cflags)
    /\ cpc' = "done"
    /\ UNCHANGED <<cin, cflags, cpasses>>
    /\ UNCHANGED gridVars
    /\ UNCHANGED harnessVars
    /\ UNCHANGED debounceVars
    /\ UNCHANGED notifyVars
    /\ UNCHANGED <<heapVars, extraVars>>

SpecClean == InitClean /\ [][SanitizeStep]_vars

\* The passes called one by one on the same object, each at most once, in any
\* order: CleanSense[pass](reference).
CleanSensePasses == {"null", "undefined", "string", "array"}

CleanSenseCall(pass, reference) ==
    CASE pass = "null" -> CleanSenseNull(reference)
      [] pass = "undefined" -> CleanSenseUndefined(reference)
      [] pass = "string" -> CleanSenseString(reference)
      [] pass = "array" -> CleanSenseArray(reference)

InitPasses ==
    /\ GridOff
    /\ HarnessOff
    /\ DebounceOff
    /\ NotifyOff
    /\ HeapOff
    /\ ExtraOff
    /\ cpc = "passes"
    /\ cin \in CleanFilters
    /\ cflags = AllFlags
    /\ cout = cin
    /\ cpasses = << >>

CallPass(pass) ==
    /\ cpc = "passes"
    /\ \A i \in 1..Len(cpasses) : cpasses[i] # pass
    /\ cout' = CleanSenseCall(pass, cout)
    /\ cpasses' = Append(cpasses, pass)
    /\ UNCHANGED <<cin, cflags, cpc>>
    /\ UNCHANGED <<gridVars, harnessVars, debounceVars, notifyVars, heapVars,
                   extraVars>>

NextPasses == \E pass \in CleanSensePasses : CallPass(pass)

SpecPasses == InitPasses /\ [][NextPasses]_vars

----------------------------------------------------------------------------
(* The notifier: the DataGrid with its change effect.  A dispatch is       *)
(* followed by a render whose effects run before anything else happens:    *)
(* the change effect builds `details` and either calls onChange or hands   *)
(* the call to debounce, then prevFilter.current is set.  The callback of  *)
(* a timer is the record [details, transition] of the closure it holds.    *)

MaxDispatches == 2

\* if (x): null, undefined and the empty string are falsy
Truthy(x) == x \notin {NULL, UNDEFINED, ""}

\* details.<field> = value, when the condition holds
WithField(details, cond, field, value) ==
    IF cond THEN details @@ (field :> value) ELSE details

\* the details object the change effect builds from the state
Details(s, flags) ==
    LET d1 == WithField([page |-> s.page, limit |-> s.limit],
                        Truthy(s.sort), "sort", s.sort)
        d2 == WithField(d1, Truthy(s.order), "order", s.order)
    IN  WithField(d2, Len(s.filter) > 0, "filter",
                  Sanitize(Spread(<< >>, s.filter), flags))

\* details.filter as a dependency of extractChangedKey
FilterOf(details) ==
    IF "filter" \in DOMAIN details THEN Some(details.filter) ELSE None

\* columns.find((c) => c.key === key)?.debounce, 0 when there is none
DebounceOf(cols, key) ==
    LET found == {i \in 1..Len(cols) : cols[i].key = key}
        column == cols[CHOOSE i \in found : \A j \in found : i <= j]
    IN  IF found = {} THEN 0
        ELSE IF "debounce" \in DOMAIN column THEN column.debounce
        ELSE 0

\* A plausible slip: the changed key is looked up whatever the command was.
ChangedKey_AnyCommand(s, details) ==
    extractChangedKey(<<Some(prevFilter), FilterOf(details)>>)

\* the key the change effect debounces under, null when it calls onChange itself
ChangedKey(s, details) ==
    IF s.command = "SetFilter"
    THEN extractChangedKey(<<Some(prevFilter), FilterOf(details)>>)
    ELSE NULL

\* onChange?.(details)
onChange(details, transition, sync) ==
    onChangeCalls' = Append(onChangeCalls,
                            [details |-> details, transition |-> transition,
                             sync |-> sync])

\* A plausible slip: the effect does not return after handing the call to debounce.
ChangeEffect_NoReturn(s) ==
    LET details == Details(s, clear)
        changedKey == ChangedKey(s, details)
        delay == IF changedKey = NULL THEN 0 ELSE DebounceOf(columns, changedKey)
        transition == Len(effects)
    IN  /\ IF delay # 0
           THEN /\ debounce(changedKey,
                            [details |-> details, transition |-> transition], delay)
                /\ effects' = Append(effects, [mode |-> "delayed", key |-> changedKey,
                                                command |-> s.command])
           ELSE /\ effects' = Append(effects, [mode |-> "sync", key |-> changedKey,
                                                command |-> s.command])
                /\ UNCHANGED timerVars
        /\ onChange(details, transition, TRUE)
        /\ prevFilter' = s.filter

\* the two effects of a render with state s
ChangeEffect(s) ==
    LET details == Details(s, clear)
        changedKey == ChangedKey(s, details)
        delay == IF changedKey = NULL THEN 0 ELSE DebounceOf(columns, changedKey)
        transition == Len(effects)
    IN  /\ IF delay # 0
           THEN /\ debounce(changedKey,
                            [details |-> details, transition |-> transition], delay)
                /\ effects' = Append(effects, [mode |-> "delayed", key |-> changedKey,
                                                command |-> s.command])
                /\ UNCHANGED onChangeCalls
           ELSE /\ onChange(details, transition, TRUE)
                /\ effects' = Append(effects, [mode |-> "sync", key |-> changedKey,
                                                command |-> s.command])
                /\ UNCHANGED timerVars
        /\ prevFilter' = s.filter

NotifyKeys == {"tags", "name"}

NotifyValues == {Str("a"), Str(""), Arr(<<Str("x")>>)}

\* column sets: a debounced and a plain column in either role, and two debounced
NotifyColumns ==
    {<<[key |-> "tags", debounce |-> 2], [key |-> "name"]>>,
     <<[key |-> "tags", debounce |-> 0], [key |-> "name", debounce |-> 2]>>,
     <<[key |-> "tags", debounce |-> 1], [key |-> "name", debounce |-> 2]>>}

NoFlags ==
    [clearNullable |-> FALSE, clearUndefined |-> FALSE, clearEmptyString |-> FALSE,
     clearEmptyArray |-> FALSE]

\* initialFilter of the shared state
NotifyInitialFilters ==
    {<< >>, <<Entry("tags", ArrAt(<<1, 1>>, <<Str("y")>>))>>, <<Entry("name", Str("b"))>>}

\* filter objects handed to replaceFilter
NotifyReplaceFilters == {<<Entry("name", Str("c"))>>}

InitNotify ==
    /\ \E f \in NotifyInitialFilters : state = [SharedInitialState EXCEPT !.filter = f]
    /\ prev = Query(state)
    /\ lastCall = "init"
    /\ lastAction = NoAction
    /\ orderRun = << >>
    /\ initialPage = DEFAULT_PAGE
    /\ resetPageOnQueryChange = RESET_PAGE_ON_QUERY_CHANGE
    /\ size \in Sizes
    /\ HarnessOff
    /\ CleanOff
    /\ DebounceOff
    /\ HeapOff
    /\ ExtraOff
    /\ prevFilter = state.filter
    /\ columns \in NotifyColumns
    /\ clear \in {AllFlags, NoFlags}
    /\ effects = << >>
    /\ onChangeCalls = << >>

\* the first render: its effects run once
Mount ==
    /\ effects = << >>
    /\ ChangeEffect(state)
    /\ UNCHANGED <<gridVars, columns, clear, calls, ran>>
    /\ UNCHANGED <<harnessVars, cleanVars, heapVars, extraVars>>

\* a call of the imperative surface, the render it causes and the effects of that render
Notify(call, action) ==
    /\ effects # << >>
    /\ Len(effects) <= MaxDispatches
    /\ Reduced(call, action)
    /\ ChangeEffect(DataGridReducer(state, action))
    /\ UNCHANGED <<columns, clear, calls, ran>>
    /\ UNCHANGED <<harnessVars, cleanVars, heapVars, extraVars>>

NotifySetFilter(key, value) ==
    Notify("setFilter",
           [command |-> "SetFilter",
            filter |-> <<Entry(key, Fresh(value, state.filter))>>,
            page |-> ResetTarget])

NotifyRemoveFilter(key) ==
    Notify("removeFilter",
           [command |-> "RemoveFilter", filter |-> <<Entry(key, Undef)>>,
            page |-> ResetTarget])

NotifyClearFilter ==
    Notify("clearFilter", [command |-> "ClearFilter", page |-> ResetTarget])

NotifySetPage(page) == Notify("setPage", [command |-> "SetPage", page |-> page])

NotifySetSort(sort) ==
    Notify("setSort", [command |-> "SetSort", sort |-> sort, page |-> ResetTarget])

NotifySetLimit(limit) ==
    Notify("setLimit", [command |-> "SetLimit", limit |-> limit, page |-> ResetTarget])

NotifyClearSort ==
    Notify("clearSort", [command |-> "ClearSort", sort |-> NULL, page |-> ResetTarget])

NotifySetOrder(order) ==
    Notify("setOrder", [command |-> "SetOrder", order |-> order, page |-> ResetTarget])

NotifyToggleOrder ==
    Notify("toggleOrder",
           [command |-> "ToggleOrder", order |-> NextOrder(state.order),
            page |-> ResetTarget])

NotifyClearOrder ==
    Notify("clearOrder", [command |-> "ClearOrder", order |-> NULL, page |-> ResetTarget])

NotifyReplaceFilter(value) ==
    Notify("replaceFilter",
           [command |-> "ReplaceFilter", filter |-> value, page |-> ResetTarget])

\* a due timer runs the closure () => onChange?.(details)
NotifyTimeout(tm) ==
    /\ RunTimer(tm)
    /\ onChange(tm.callback.details, tm.callback.transition, FALSE)
    /\ UNCHANGED <<prevFilter, columns, clear, effects, calls, ran>>
    /\ UNCHANGED <<gridVars, harnessVars, cleanVars, heapVars, extraVars>>

NotifyTick ==
    /\ Elapse
    /\ UNCHANGED <<calls, ran>>
    /\ UNCHANGED <<gridVars, harnessVars, cleanVars, notifyVars, heapVars, extraVars>>

NextNotify ==
    \/ Mount
    \/ \E key \in NotifyKeys, value \in NotifyValues : NotifySetFilter(key, value)
    \/ \E key \in NotifyKeys : NotifyRemoveFilter(key)
    \/ NotifyClearFilter
    \/ \E page \in 1..MaxPage : NotifySetPage(page)
    \/ \E sort \in SortKeys : NotifySetSort(sort)
    \/ NotifySetLimit(2 * DEFAULT_LIMIT)
    \/ NotifyClearSort
    \/ NotifySetOrder(SORT_DESC)
    \/ NotifyToggleOrder
    \/ NotifyClearOrder
    \/ \E value \in NotifyReplaceFilters : NotifyReplaceFilter(value)
    \/ \E tm \in timers : NotifyTimeout(tm)
    \/ NotifyTick

SpecNotify == InitNotify /\ [][NextNotify]_vars

----------------------------------------------------------------------------
(* The debounce harness: a bounded number of debounce calls, for keys and  *)
(* delays drawn from small sets, interleaved with the passing of time.     *)
(* The callback of the n-th call is identified by n.                       *)

MaxCalls == 3

DebounceKeys == {"name", "tags"}

Delays == {1, 2}

\* the pending timer of a key, as a set with at most one member
Pending(key) == {tm \in timers : tm.key = key}

InitDebounce ==
    /\ GridOff
    /\ HarnessOff
    /\ CleanOff
    /\ NotifyOff
    /\ HeapOff
    /\ ExtraOff
    /\ DebounceOff

\* debounce(key, callback, delay); `early` records that the call is made while
\* the timer of the previous call for the key is still running
CallDebounce(key, delay) ==
    /\ Len(calls) < MaxCalls
    /\ debounce(key, Len(calls) + 1, delay)
    /\ calls' = Append(calls, [key |-> key, delay |-> delay,
                               early |-> \E tm \in Pending(key) : ~Due(tm)])
    /\ UNCHANGED ran
    /\ UNCHANGED <<gridVars, harnessVars, cleanVars, notifyVars, heapVars, extraVars>>

\* a due timer runs its callback
Timeout(tm) ==
    /\ RunTimer(tm)
    /\ ran' = Append(ran, [callback |-> tm.callback, key |-> tm.key, age |-> tm.age])
    /\ UNCHANGED calls
    /\ UNCHANGED <<gridVars, harnessVars, cleanVars, notifyVars, heapVars, extraVars>>

Tick ==
    /\ Elapse
    /\ UNCHANGED <<calls, ran>>
    /\ UNCHANGED <<gridVars, harnessVars, cleanVars, notifyVars, heapVars, extraVars>>

NextDebounce ==
    \/ \E key \in DebounceKeys, delay \in Delays : CallDebounce(key, delay)
    \/ \E tm \in timers : Timeout(tm)
    \/ Tick

SpecDebounce == InitDebounce /\ [][NextDebounce]_vars

\* the runtime keeps its clock running and runs every timer that is due
FairSpecDebounce ==
    SpecDebounce /\ WF_vars(Tick) /\ WF_vars(\E tm \in timers : Timeout(tm))

----------------------------------------------------------------------------
(* debounce with callbacks that do something to debounce itself.  The      *)
(* timer function is () => { callback(); DEBOUNCE_HASH_MAP.delete(key) }:  *)
(* a callback that returns is followed by the delete, a callback that      *)
(* throws is not, and a callback that calls debounce for its own key sets  *)
(* a new timer and a new map entry before the delete runs.                 *)

CallbackKinds == {"returns", "throws", "debounces"}

Callback(kind, n) == [kind |-> kind, n |-> n]

\* the timers and the map after callback() of the due timer tm, which the
\* runtime has already taken out of its pending timers; the debouncing callback
\* calls debounce(tm.key, <a callback that returns>, tm.delay)
AfterCallback(tm) ==
    LET fired == timers \ {tm}
        cleared == IF tm.key \in DOMAIN DEBOUNCE_HASH_MAP
                   THEN clearTimeout(fired, DEBOUNCE_HASH_MAP[tm.key])
                   ELSE fired
    IN  IF tm.callback.kind = "debounces"
        THEN [timers |-> setTimeout(cleared, nextTimeout, tm.key,
                                    Callback("returns", tm.callback.n), tm.delay),
              map |-> MapSet(DEBOUNCE_HASH_MAP, tm.key, nextTimeout),
              nextTimeout |-> nextTimeout + 1]
        ELSE [timers |-> fired, map |-> DEBOUNCE_HASH_MAP,
              nextTimeout |-> nextTimeout]

CallDebounceWith(key, kind, delay) ==
    /\ Len(calls) < MaxCalls
    /\ debounce(key, Callback(kind, Len(calls) + 1), delay)
    /\ calls' = Append(calls, [key |-> key, delay |-> delay, kind |-> kind])
    /\ UNCHANGED ran
    /\ UNCHANGED <<gridVars, harnessVars, cleanVars, notifyVars, heapVars, extraVars>>

\* the runtime runs the timer function of the due timer tm
TimeoutWith(tm) ==
    /\ tm \in timers
    /\ Due(tm)
    /\ timers' = AfterCallback(tm).timers
    /\ nextTimeout' = AfterCallback(tm).nextTimeout
    /\ DEBOUNCE_HASH_MAP' =
           IF tm.callback.kind = "throws"
           THEN AfterCallback(tm).map
           ELSE MapDelete(AfterCallback(tm).map, tm.key)
    /\ ran' = Append(ran, [callback |-> tm.callback, key |-> tm.key, age |-> tm.age])
    /\ UNCHANGED calls
    /\ UNCHANGED <<gridVars, harnessVars, cleanVars, notifyVars, heapVars, extraVars>>

NextCallbacks ==
    \/ \E key \in DebounceKeys, kind \in CallbackKinds, delay \in Delays :
           CallDebounceWith(key, kind, delay)
    \/ \E tm \in timers : TimeoutWith(tm)
    \/ Tick

SpecCallbacks == InitDebounce /\ [][NextCallbacks]_vars

----------------------------------------------------------------------------
(* Two DataGrid components on one page.  Each has its own columns, state   *)
(* and onChange; debounce and DEBOUNCE_HASH_MAP belong to the module, which *)
(* both components import.  The change effect of a component hands its     *)
(* call to debounce under the key of the column.                           *)

Instances == {"A", "B"}

\* the change effect of one component reaches
\* `return debounce(changedKey, () => onChange?.(details), column.debounce)`
InstanceDebounce(instance, key, delay) ==
    /\ Len(calls) < MaxCalls
    /\ debounce(key, Len(calls) + 1, delay)
    /\ calls' = Append(calls, [instance |-> instance, key |-> key, delay |-> delay])
    /\ UNCHANGED ran
    /\ UNCHANGED <<gridVars, harnessVars, cleanVars, notifyVars, heapVars, extraVars>>

NextInstances ==
    \/ \E instance \in Instances, key \in DebounceKeys, delay \in Delays :
           InstanceDebounce(instance, key, delay)
    \/ \E tm \in timers : Timeout(tm)
    \/ Tick

SpecInstances == InitDebounce /\ [][NextInstances]_vars

----------------------------------------------------------------------------
(* The extractChangedKey harness: the function is called once on a pair of *)
(* dependencies.  `next` is given as the entries the caller added, in the  *)
(* order it added them; the object is built from them.                     *)

ChangeKeys == {"a", "b", "1"}

\* two primitives, undefined, two arrays with the same elements and one longer
ChangeValues ==
    {Str("1"), Str("2"), Undef, ArrAt(<<1>>, <<Str("x")>>), ArrAt(<<2>>, <<Str("x")>>),
     ArrAt(<<3>>, <<Str("x"), Str("y")>>)}

\* the entries of an object literal with at most two keys, as written
ChangeEntries ==
    {<< >>}
        \cup {<<Entry(k, v)>> : k \in ChangeKeys, v \in ChangeValues}
        \cup {<<Entry(k1, v1), Entry(k2, v2)>> :
                  <<k1, k2>> \in {kk \in ChangeKeys \X ChangeKeys : kk[1] # kk[2]},
                  <<v1, v2>> \in ChangeValues \X ChangeValues}

\* the object with the given entries, added in the given order
FromEntries(entries) == Spread(<< >>, entries)

\* a dependency: undefined, or the entries of the object
ChangeDeps == {None} \cup {Some(e) : e \in ChangeEntries}

\* the object of a dependency
Dep(d) == IF d = None THEN None ELSE Some(FromEntries(d[1]))

InitChanged ==
    /\ GridOff
    /\ HarnessOff
    /\ CleanOff
    /\ DebounceOff
    /\ NotifyOff
    /\ HeapOff
    /\ DsOff
    /\ fnArgs \in ChangeDeps \X ChangeDeps
    /\ fnResult = << >>
    /\ fnPc = "ready"

CallExtractChangedKey ==
    /\ fnPc = "ready"
    /\ fnResult' = extractChangedKey(<<Dep(fnArgs[1]), Dep(fnArgs[2])>>)
    /\ fnPc' = "done"
    /\ UNCHANGED fnArgs
    /\ UNCHANGED <<gridVars, harnessVars, cleanVars, debounceVars, notifyVars, heapVars, dsVars>>

SpecChanged == InitChanged /\ [][CallExtractChangedKey]_vars

----------------------------------------------------------------------------
(* The hooks that choose the state source.  A source is the [state,        *)
(* dispatch] pair of a reducer, known here by its name; the component      *)
(* calls the hook in every render, with the context array it was given in  *)
(* that render.  The last two renders are kept.                            *)

MaxSlots == 2

\* the pair useSharedDataGrid() returns inside the hook
internalReducer == "internal"

ExternalSources == {"external1", "external2"}

\* the `context` argument: undefined, or an array whose slots may be undefined
ContextArrays ==
    {None} \cup {Some(c) : c \in SeqsUpTo(ExternalSources \cup {UNDEFINED}, MaxSlots)}

\* A plausible slip: a later external source takes precedence over an earlier one.
RECURSIVE ForExternal_Last(_)
ForExternal_Last(context) ==
    IF context = << >> THEN UNDEFINED
    ELSE IF context[Len(context)] # UNDEFINED THEN context[Len(context)]
    ELSE ForExternal_Last(SubSeq(context, 1, Len(context) - 1))

\* for (const external of context) { if (external) return external }:
\* the source returned from inside the loop, undefined when the loop ends
RECURSIVE ForExternal(_)
ForExternal(context) ==
    IF context = << >> THEN UNDEFINED
    ELSE IF Head(context) # UNDEFINED THEN Head(context)
    ELSE ForExternal(Tail(context))

useDataGridMerge(context) ==
    IF context # None /\ ForExternal(context[1]) # UNDEFINED
    THEN ForExternal(context[1])
    ELSE internalReducer

\* useDataGridState(externalStore), the variant with a single external source
useDataGridState(externalStore) ==
    IF externalStore # UNDEFINED THEN externalStore ELSE internalReducer

\* the last two elements of a sequence
LastTwo(s) == IF Len(s) <= 2 THEN s ELSE SubSeq(s, Len(s) - 1, Len(s))

InitMerge ==
    /\ GridOff
    /\ HarnessOff
    /\ CleanOff
    /\ DebounceOff
    /\ NotifyOff
    /\ HeapOff
    /\ DsOff
    /\ fnArgs = << >>
    /\ fnResult = << >>
    /\ fnPc = "ready"

\* a render of a component that calls useDataGridMerge(context)
RenderMerge(context) ==
    /\ fnArgs' = LastTwo(Append(fnArgs, [hook |-> "useDataGridMerge", arg |-> context]))
    /\ fnResult' = LastTwo(Append(fnResult, useDataGridMerge(context)))
    /\ fnPc' = "done"
    /\ UNCHANGED <<gridVars, harnessVars, cleanVars, debounceVars, notifyVars, heapVars, dsVars>>

\* a render of a component that calls useDataGridState(externalStore)
RenderState(externalStore) ==
    /\ fnArgs' = LastTwo(Append(fnArgs, [hook |-> "useDataGridState",
                                          arg |-> Some(<<externalStore>>)]))
    /\ fnResult' = LastTwo(Append(fnResult, useDataGridState(externalStore)))
    /\ fnPc' = "done"
    /\ UNCHANGED <<gridVars, harnessVars, cleanVars, debounceVars, notifyVars, heapVars, dsVars>>

NextMerge ==
    \/ \E context \in ContextArrays : RenderMerge(context)
    \/ \E externalStore \in ExternalSources \cup {UNDEFINED} : RenderState(externalStore)

SpecMerge == InitMerge /\ [][NextMerge]_vars

----------------------------------------------------------------------------
(* The consumer hooks.  useContext gives the value of the nearest provider, *)
(* or the default of the context when there is none: a context value is    *)
(* null, undefined or an object.  The value of DataGridStoreContext is a   *)
(* store, from which useStore reads the part the selector picks.           *)

\* the grid state a provider publishes
ContextStates ==
    [page : 1..MaxPage, sort : {Str("name"), Null},
     order : {Str("asc"), Str("desc"), Null}]

\* the value of DataGridContext inside a provider
ContextObject(s) == [t |-> "context", state |-> s]

\* the value of DataGridStoreContext inside a provider
StoreObject(s) == [t |-> "store", state |-> s]

\* `!context`
Falsy(context) == context \in {Null, Undef}

Throw(error) == [threw |-> error]

Return(value) == [returned |-> value]

useDataGrid(context) ==
    IF Falsy(context)
    THEN Throw("ReferenceError")
    ELSE Return(context)

Selectors == {"store", "sort", "order"}

\* selector(state), for the selectors (store) => store, (store) => store.sort and
\* (store) => store.order
Select(selector, s) ==
    CASE selector = "store" -> s
      [] selector = "sort" -> s.sort
      [] selector = "order" -> s.order

\* useStore(api, selector): the selected part of the state the store holds
useStore(api, selector) == Select(selector, api.state)

\* A plausible slip: outside a provider the hook gives undefined.
useDataGridStore_NoThrow(context, selector) ==
    IF Falsy(context)
    THEN Return(Undef)
    ELSE Return(useStore(context, selector))

useDataGridStore(context, selector) ==
    IF Falsy(context)
    THEN Throw("ReferenceError")
    ELSE Return(useStore(context, selector))

InitContext ==
    /\ GridOff
    /\ HarnessOff
    /\ CleanOff
    /\ DebounceOff
    /\ NotifyOff
    /\ HeapOff
    /\ DsOff
    /\ fnArgs \in
           [hook : {"useDataGrid"},
            context : {Null, Undef} \cup {ContextObject(s) : s \in ContextStates},
            selector : {"store"}]
             \cup
           [hook : {"useDataGridStore"},
            context : {Null, Undef} \cup {StoreObject(s) : s \in ContextStates},
            selector : Selectors]
    /\ fnResult = << >>
    /\ fnPc = "ready"

\* a component calls useDataGrid()
CallUseDataGrid ==
    /\ fnPc = "ready"
    /\ fnArgs.hook = "useDataGrid"
    /\ fnResult' = useDataGrid(fnArgs.context)
    /\ fnPc' = "done"
    /\ UNCHANGED fnArgs
    /\ UNCHANGED <<gridVars, harnessVars, cleanVars, debounceVars, notifyVars, heapVars, dsVars>>

\* a component calls useDataGridStore(selector)
CallUseDataGridStore ==
    /\ fnPc = "ready"
    /\ fnArgs.hook = "useDataGridStore"
    /\ fnResult' = useDataGridStore(fnArgs.context, fnArgs.selector)
    /\ fnPc' = "done"
    /\ UNCHANGED fnArgs
    /\ UNCHANGED <<gridVars, harnessVars, cleanVars, debounceVars, notifyVars, heapVars, dsVars>>

NextContext == CallUseDataGrid \/ CallUseDataGridStore

SpecContext == InitContext /\ [][NextContext]_vars

----------------------------------------------------------------------------
(* DataSource: the component that keeps the grid state in a store.  An     *)
(* operation of its imperative surface computes the next state from the    *)
(* derivedState of the current render, stores it and invokes callbacks;    *)
(* the render that follows recomputes derivedState, and its sync effect    *)
(* stores derivedState when it differs from the stored state.  A column's  *)
(* deriveState is a function from state to state, known here by its name.  *)

DATAGRID_DEFAULT_PAGE == 1

DATAGRID_DEFAULT_LIMIT == 10

DATAGRID_DEFAULT_SELECTED == << >>

\* the six fields the store starts with and clear() goes back to
DataSourceDefaults ==
    [page |-> DATAGRID_DEFAULT_PAGE, limit |-> DATAGRID_DEFAULT_LIMIT,
     sort |-> NULL, order |-> NULL, filter |-> DEFAULT_FILTER,
     selected |-> DATAGRID_DEFAULT_SELECTED]

\* column.filterConfig.deriveState(currentState), for five functions a column may
\* declare.  Each of them is idempotent; applied one after the other, the last
\* two undo each other's result.
deriveState(name, currentState) ==
    CASE name = "deselectWhenFiltered" ->
            IF currentState.filter # << >>
            THEN [currentState EXCEPT !.selected = << >>]
            ELSE currentState
      [] name = "singleSelection" ->
            IF Len(currentState.selected) > 1
            THEN [currentState EXCEPT !.selected = SubSeq(@, 1, 1)]
            ELSE currentState
      [] name = "unfilterWhenNoneSelected" ->
            IF currentState.selected = << >>
            THEN [currentState EXCEPT !.filter = << >>]
            ELSE currentState
      [] name = "selectFirstWhenNone" ->
            IF currentState.selected = << >>
            THEN [currentState EXCEPT !.selected = <<"r1">>]
            ELSE currentState
      [] name = "deselectAndReverse" ->
            IF currentState.selected # << >>
            THEN [currentState EXCEPT
                     !.selected = << >>,
                     !.order = IF @ = SORT_ASC THEN SORT_DESC ELSE SORT_ASC]
            ELSE currentState

RECURSIVE calculateDerivedState(_, _)
calculateDerivedState(initialState, cols) ==
    IF cols = << >> THEN initialState
    ELSE calculateDerivedState(
             IF "deriveState" \in DOMAIN Head(cols)
             THEN deriveState(Head(cols).deriveState, initialState)
             ELSE initialState,
             Tail(cols))

\* derivedState of the render in which the store holds `stored`
derivedState(stored, cols) == calculateDerivedState(stored, cols)

\* shouldChange of that render
shouldChange(stored, cols) == derivedState(stored, cols) # stored

CallOnChange(query) == [callback |-> "onChange", arg |-> query]

CallOnSelect(selected) == [callback |-> "onSelect", arg |-> selected]

\* what dsArgs holds for an operation without arguments
NoArguments == [none |-> TRUE]

\* setState(nextState) followed by the callbacks of the handler: the store holds
\* nextState and `invoked` lists the callbacks the operation has invoked
Stored(op, args, nextState, invoked) ==
    /\ dsOp' = op
    /\ dsArgs' = args
    /\ dsBefore' = dsStore
    /\ dsStore' = nextState
    /\ dsCalls' = invoked
    /\ UNCHANGED <<gridVars, harnessVars, cleanVars, debounceVars, notifyVars,
                   heapVars, fnVars>>

\* the first render
DataSourceMount ==
    /\ dsOp = "init"
    /\ Stored("mount", NoArguments, dsStore, << >>)
    /\ UNCHANGED dsProps

\* the component is mounted
DataSourceMounted == dsOp \notin {"off", "init"}

\* the callbacks logged for one operation: the log keeps MaxLogged calls
MaxLogged == 4

Logged(invoked, call) ==
    IF Len(invoked) < MaxLogged THEN Append(invoked, call) ELSE invoked

\* The sync effect of a render: if (shouldChange) { setState(derivedState);
\* onChange?.(derivedState) }.  The store update causes the next render, whose
\* sync effect is the next step of this kind.
DataSourceSync ==
    /\ DataSourceMounted
    /\ shouldChange(dsStore, dsProps.columns)
    /\ dsStore' = derivedState(dsStore, dsProps.columns)
    /\ dsCalls' = Logged(dsCalls, CallOnChange(derivedState(dsStore, dsProps.columns)))
    /\ UNCHANGED <<dsOp, dsArgs, dsBefore, dsProps>>
    /\ UNCHANGED <<gridVars, harnessVars, cleanVars, debounceVars, notifyVars,
                   heapVars, fnVars>>

\* the effects of a render run before the next call or the next props arrive
DataSourceIdle == DataSourceMounted /\ ~shouldChange(dsStore, dsProps.columns)

\* A plausible slip: the page is reset whatever the prop says.
DataSourceNewPage_Always == DATAGRID_DEFAULT_PAGE

\* page: resetPageOnQueryChange ? DATAGRID_DEFAULT_PAGE : derivedState.page
DataSourceNewPage ==
    IF dsProps.resetPageOnQueryChange
    THEN DATAGRID_DEFAULT_PAGE
    ELSE derivedState(dsStore, dsProps.columns).page

\* Each handler computes rawState from derivedState, stores nextState ==
\* calculateDerivedState(rawState, columns) and invokes its callbacks.
onInternalSetPage(page, limit) ==
    /\ DataSourceIdle
    /\ \E nextState \in {calculateDerivedState(
                             [derivedState(dsStore, dsProps.columns)
                                 EXCEPT !.page = page, !.limit = limit],
                             dsProps.columns)} :
           Stored("setPagination", [page |-> page, limit |-> limit], nextState,
                  <<CallOnChange(nextState)>>)
    /\ UNCHANGED dsProps

onInternalSetSort(sort, order) ==
    /\ DataSourceIdle
    /\ \E nextState \in {calculateDerivedState(
                             [derivedState(dsStore, dsProps.columns)
                                 EXCEPT !.page = DataSourceNewPage,
                                        !.sort = sort, !.order = order],
                             dsProps.columns)} :
           Stored("setSorting", [sort |-> sort, order |-> order], nextState,
                  <<CallOnChange(nextState)>>)
    /\ UNCHANGED dsProps

onInternalSetFilter(filter) ==
    /\ DataSourceIdle
    /\ \E nextState \in {calculateDerivedState(
                             [derivedState(dsStore, dsProps.columns)
                                 EXCEPT !.page = DataSourceNewPage,
                                        !.filter = filter],
                             dsProps.columns)} :
           Stored("setFilter", [filter |-> filter], nextState,
                  <<CallOnChange(nextState)>>)
    /\ UNCHANGED dsProps

\* onSelect is given newSelected, the argument, not nextState.selected
onInternalSetSelected(selected) ==
    /\ DataSourceIdle
    /\ \E nextState \in {calculateDerivedState(
                             [derivedState(dsStore, dsProps.columns)
                                 EXCEPT !.selected = selected],
                             dsProps.columns)} :
           Stored("setSelected", [selected |-> selected], nextState,
                  <<CallOnSelect(selected)>>)
    /\ UNCHANGED dsProps

onInternalSetState(newState) ==
    /\ DataSourceIdle
    /\ \E nextState \in {calculateDerivedState(newState, dsProps.columns)} :
           Stored("setState", [newState |-> newState], nextState,
                  <<CallOnChange(nextState), CallOnSelect(nextState.selected)>>)
    /\ UNCHANGED dsProps

\* A plausible slip: clear resets the query and keeps the selection.
DataSourceClear_KeepsSelected ==
    /\ DataSourceIdle
    /\ \E nextState \in {calculateDerivedState(
                             [DataSourceDefaults EXCEPT !.selected = dsStore.selected],
                             dsProps.columns)} :
           Stored("clear", NoArguments, nextState,
                  <<CallOnChange(nextState), CallOnSelect(nextState.selected)>>)
    /\ UNCHANGED dsProps

DataSourceClear ==
    /\ DataSourceIdle
    /\ \E nextState \in {calculateDerivedState(DataSourceDefaults,
                                                dsProps.columns)} :
           Stored("clear", NoArguments, nextState,
                  <<CallOnChange(nextState), CallOnSelect(nextState.selected)>>)
    /\ UNCHANGED dsProps

\* the parent renders the component with other columns
DataSourceSetColumns(cols) ==
    /\ DataSourceIdle
    /\ cols # dsProps.columns
    /\ dsProps' = [dsProps EXCEPT !.columns = cols]
    /\ Stored("columns", NoArguments, dsStore, << >>)

DataSourceSelections == {<< >>, <<"r1">>, <<"r1", "r2">>}

DataSourceFilters == {<< >>, <<Entry("name", Str("a"))>>}

DataSourceColumns ==
    {<<[key |-> "name"]>>,
     <<[key |-> "name", deriveState |-> "deselectWhenFiltered"]>>,
     <<[key |-> "name"], [key |-> "id", deriveState |-> "singleSelection"]>>,
     <<[key |-> "id", deriveState |-> "unfilterWhenNoneSelected"],
       [key |-> "name", deriveState |-> "deselectWhenFiltered"]>>,
     <<[key |-> "id", deriveState |-> "selectFirstWhenNone"],
       [key |-> "name", deriveState |-> "deselectAndReverse"]>>}

\* the states createDataGridStore(initProps) starts with, and those setState is given
DataSourceStates ==
    {[DataSourceDefaults EXCEPT !.filter = f, !.selected = s] :
        f \in DataSourceFilters, s \in DataSourceSelections}

InitDataSource ==
    /\ GridOff
    /\ HarnessOff
    /\ CleanOff
    /\ DebounceOff
    /\ NotifyOff
    /\ HeapOff
    /\ FnOff
    /\ dsStore \in DataSourceStates
    /\ dsProps \in [columns : DataSourceColumns, resetPageOnQueryChange : BOOLEAN]
    /\ dsOp = "init"
    /\ dsBefore = dsStore
    /\ dsCalls = << >>
    /\ dsArgs = NoArguments

NextDataSource ==
    \/ DataSourceMount
    \/ DataSourceSync
    \/ \E page \in 1..MaxPage : onInternalSetPage(page, DATAGRID_DEFAULT_LIMIT)
    \/ onInternalSetSort("name", SORT_ASC)
    \/ \E filter \in DataSourceFilters : onInternalSetFilter(filter)
    \/ \E selected \in DataSourceSelections : onInternalSetSelected(selected)
    \/ \E newState \in DataSourceStates : onInternalSetState(newState)
    \/ DataSourceClear
    \/ \E cols \in DataSourceColumns : DataSourceSetColumns(cols)

SpecDataSource == InitDataSource /\ [][NextDataSource]_vars

\* React runs the effect of every render
FairSpecDataSource == SpecDataSource /\ WF_vars(DataSourceSync)

----------------------------------------------------------------------------
(* The object store.  To tell an object that is changed in place from a    *)
(* changed copy, the state objects, the filter objects and the arrays are  *)
(* kept here in a store indexed by address; an object is allocated at the  *)
(* next free address.  A state object holds the address of its filter      *)
(* object, and a filter object holds, for an array value, a reference      *)
(* ArrAt(<<address>>, << >>) to the array.  The reducer and the change     *)
(* effect are written as the allocations and the writes they perform.      *)

ArrayCell(a) == [kind |-> "array", a |-> a]

FilterCell(entries) == [kind |-> "filter", entries |-> entries]

StateCell(q, filterRef, command) ==
    [kind |-> "state", page |-> q.page, limit |-> q.limit, sort |-> q.sort,
     order |-> q.order, filter |-> filterRef, command |-> command]

\* the reference to the array at an address
Ref(address) == ArrAt(<<address>>, << >>)

\* a new object is placed at the next free address, Len(h) + 1
Alloc(h, cell) == Append(h, cell)

\* F(v), with v evaluated once: a step of a computation that threads the store
Bind(v, F(_)) == CHOOSE r \in {F(x) : x \in {v}} : TRUE

\* the value v is an array that lives in the store h
IsRef(h, v) ==
    /\ IsArray(v)
    /\ Len(v.id) = 1
    /\ v.id[1] \in 1..Len(h)
    /\ h[v.id[1]].kind = "array"

\* the entries of the filter object at fref, each array with its elements
Load(h, fref) ==
    LET entries == h[fref].entries
    IN  [i \in 1..Len(entries) |->
            IF IsArray(entries[i].v)
            THEN Entry(entries[i].k,
                       ArrAt(entries[i].v.id, h[entries[i].v.id[1]].a))
            ELSE entries[i]]

\* entries as they are kept in a filter object: an array that is not yet in the
\* store is allocated, an array of the store is kept by reference
RECURSIVE StoreEntries(_, _)
StoreEntries(h, entries) ==
    IF entries = << >> THEN [heap |-> h, entries |-> << >>]
    ELSE LET e == Head(entries)
             isNew == IsArray(e.v) /\ ~IsRef(h, e.v)
             e1 == IF isNew THEN Entry(e.k, Ref(Len(h) + 1))
                   ELSE IF IsArray(e.v) THEN Entry(e.k, Ref(e.v.id[1]))
                   ELSE e
         IN  Bind(StoreEntries(IF isNew THEN Alloc(h, ArrayCell(e.v.a)) ELSE h,
                               Tail(entries)),
                  LAMBDA rest : [heap |-> rest.heap, entries |-> <<e1>> \o rest.entries])

\* a new filter object with the given entries
NewFilter(h, entries) ==
    Bind(StoreEntries(h, entries),
         LAMBDA s : [heap |-> Alloc(s.heap, FilterCell(s.entries)),
                     ref |-> Len(s.heap) + 1])

\* the filter object at fref is given new entries, in place
WriteFilter(h, fref, entries) ==
    Bind(StoreEntries(h, entries),
         LAMBDA s : [s.heap EXCEPT ![fref].entries = s.entries])

\* a filter object without the identities of its arrays
Content(f) ==
    [i \in 1..Len(f) |->
        IF IsArray(f[i].v) THEN Entry(f[i].k, Arr(f[i].v.a)) ELSE f[i]]

\* the content of the state object at sref, its filter object and its arrays
Deep(h, sref) ==
    [page |-> h[sref].page, limit |-> h[sref].limit, sort |-> h[sref].sort,
     order |-> h[sref].order, filter |-> Content(Load(h, h[sref].filter)),
     command |-> h[sref].command]

\* A plausible slip: the reducer works on the state object it was given.
structuredCloneAt_Alias(h, sref) == [heap |-> h, ref |-> sref]

\* structuredClone(state): new arrays, a new filter object and a new state object
structuredCloneAt(h, sref) ==
    Bind(NewFilter(h, Content(Load(h, h[sref].filter))),
         LAMBDA f : [heap |-> Alloc(f.heap, [h[sref] EXCEPT !.filter = f.ref]),
                     ref |-> Len(f.heap) + 1])

\* the switch over action.command, on the store: clone is the address of the copy
\* and action.filter the address of the payload filter object
SwitchCommandAt(h, clone, action) ==
    CASE action.command \in {"SetFilter", "RemoveFilter"} ->
            [Alloc(h, FilterCell(Spread(h[h[clone].filter].entries,
                                        h[action.filter].entries)))
                EXCEPT ![clone].filter = Len(h) + 1]
      [] action.command = "ReplaceFilter" ->
            [h EXCEPT ![clone].filter = action.filter]
      [] action.command = "ClearFilter" ->
            [Alloc(h, FilterCell(<< >>)) EXCEPT ![clone].filter = Len(h) + 1]
      [] OTHER ->
            [h EXCEPT ![clone] = SwitchCommand(h[clone], action.command, action)]

\* DataGridReducer(state, action) on the store: sref is the address of `state`;
\* gives the store after the call and the address of the returned object
DataGridReducerAt(h, sref, action) ==
    Bind(structuredCloneAt(h, sref), LAMBDA c :
    Bind([c.heap EXCEPT ![c.ref].command = action.command], LAMBDA h1 :
    Bind(SwitchCommandAt(h1, c.ref, action), LAMBDA h2 :
        [heap |-> IF ShouldResetPage(action)
                  THEN [h2 EXCEPT ![c.ref].page = action.page]
                  ELSE h2,
         ref |-> c.ref])))

\* A plausible slip: details.filter is the stored filter object itself.
CopyFilter_Alias(h, fref) == [heap |-> h, ref |-> fref]

\* details.filter = { ...state.filter }: a new object with the same values
CopyFilter(h, fref) ==
    [heap |-> Alloc(h, FilterCell(Spread(<< >>, h[fref].entries))), ref |-> Len(h) + 1]

\* one CleanSense pass on the object at fref
CleanSenseAt(h, fref, Pass(_)) == WriteFilter(h, fref, Pass(Load(h, fref)))

\* the change effect on the store: gives the store after the effect and the
\* address of details.filter, 0 when details has no filter
ChangeEffectAt(h, sref, flags) ==
    IF h[h[sref].filter].entries = << >> THEN [heap |-> h, ref |-> 0]
    ELSE Bind(CopyFilter(h, h[sref].filter), LAMBDA c :
         Bind(IF flags.clearNullable
              THEN CleanSenseAt(c.heap, c.ref, CleanSenseNull) ELSE c.heap, LAMBDA h1 :
         Bind(IF flags.clearUndefined
              THEN CleanSenseAt(h1, c.ref, CleanSenseUndefined) ELSE h1, LAMBDA h2 :
         Bind(IF flags.clearEmptyString
              THEN CleanSenseAt(h2, c.ref, CleanSenseString) ELSE h2, LAMBDA h3 :
             [heap |-> IF flags.clearEmptyArray
                       THEN CleanSenseAt(h3, c.ref, CleanSenseArray) ELSE h3,
              ref |-> c.ref]))))

StoreKeys == {"name", "tags"}

StoreValues ==
    {Str("a"), Str(""), Null, Arr(<< >>), Arr(<<Str(""), Str("x")>>), Arr(<<Undef>>)}

StoreInitialFilters ==
    {<< >>, <<Entry("tags", Arr(<<Null, Str("y")>>)), Entry("name", Str("b"))>>}

StoreReplaceFilters ==
    {<<Entry("name", Undef), Entry("city", Arr(<<Str("NY"), Str("")>>))>>}

InitStore ==
    /\ GridOff
    /\ HarnessOff
    /\ CleanOff
    /\ DebounceOff
    /\ ExtraOff
    /\ prevFilter = DEFAULT_FILTER
    /\ columns = << >>
    /\ clear \in ClearFlags
    /\ effects = << >>
    /\ onChangeCalls = << >>
    /\ \E f \in StoreInitialFilters :
       \E nf \in {NewFilter(<< >>, f)} :
               /\ heap = Alloc(nf.heap,
                               StateCell(Query(SharedInitialState), nf.ref, UNDEFINED))
               /\ stateRef = Len(heap)
               /\ snapshot = Deep(heap, stateRef)
               /\ produced = Query(snapshot)
    /\ detailsRef = 0
    /\ snapRef = 0
    /\ dispatched = 0

\* a call of the imperative surface: the caller builds the action (its payload
\* filter is a new object), the reducer runs, and the change effect of the
\* render that follows runs
DispatchAt(action) ==
    /\ dispatched < MaxDispatches
    /\ \E payload \in {IF "filter" \in DOMAIN action
                         THEN NewFilter(heap, action.filter)
                         ELSE [heap |-> heap, ref |-> 0]} :
       \E reduced \in {DataGridReducerAt(
                            payload.heap, stateRef,
                            IF "filter" \in DOMAIN action
                            THEN [action EXCEPT !.filter = payload.ref]
                            ELSE action)} :
       \E done \in {ChangeEffectAt(reduced.heap, reduced.ref, clear)} :
       \E byValue \in {DataGridReducer(Deep(heap, stateRef), action)} :
           /\ heap' = done.heap
           /\ stateRef' = reduced.ref
           /\ detailsRef' = done.ref
           /\ produced' = [Query(byValue) EXCEPT !.filter = Content(byValue.filter)]
    /\ dispatched' = dispatched + 1
    /\ UNCHANGED <<snapRef, snapshot>>
    /\ UNCHANGED <<gridVars, harnessVars, cleanVars, debounceVars, notifyVars, extraVars>>

\* page: resetPageOnQueryChange ? initialPage : state.page
ResetTargetAt == IF resetPageOnQueryChange THEN initialPage ELSE heap[stateRef].page

StoreSetFilter(key, value) ==
    DispatchAt([command |-> "SetFilter", filter |-> <<Entry(key, value)>>,
                page |-> ResetTargetAt])

StoreRemoveFilter(key) ==
    DispatchAt([command |-> "RemoveFilter", filter |-> <<Entry(key, Undef)>>,
                page |-> ResetTargetAt])

StoreReplaceFilter(value) ==
    DispatchAt([command |-> "ReplaceFilter", filter |-> value, page |-> ResetTargetAt])

StoreClearFilter == DispatchAt([command |-> "ClearFilter", page |-> ResetTargetAt])

StoreSetPage(page) == DispatchAt([command |-> "SetPage", page |-> page])

StoreSetLimit(limit) ==
    DispatchAt([command |-> "SetLimit", limit |-> limit, page |-> ResetTargetAt])

\* an observer keeps the state object of the current render
KeepState ==
    /\ snapRef = 0
    /\ snapRef' = stateRef
    /\ snapshot' = Deep(heap, stateRef)
    /\ UNCHANGED <<heap, stateRef, detailsRef, produced, dispatched>>
    /\ UNCHANGED <<gridVars, harnessVars, cleanVars, debounceVars, notifyVars, extraVars>>

NextStore ==
    \/ \E key \in StoreKeys, value \in StoreValues : StoreSetFilter(key, value)
    \/ \E key \in StoreKeys : StoreRemoveFilter(key)
    \/ \E value \in StoreReplaceFilters : StoreReplaceFilter(value)
    \/ StoreClearFilter
    \/ StoreSetPage(heap[stateRef].page + 1)
    \/ StoreSetLimit(2 * DEFAULT_LIMIT)
    \/ KeepState

SpecStore == InitStore /\ [][NextStore]_vars

----------------------------------------------------------------------------
(* The claims.                                                             *)

\* the commands the page-reset policy names
ResetTriggering ==
    {"SetLimit", "SetSort", "SetOrder", "ToggleOrder", "ReplaceFilter",
     "ClearFilter", "ClearOrder", "ClearSort"}

\* the commands of a list, as a set
Members(commands) == {commands[i] : i \in 1..Len(commands)}

\* the index of the last command of the list that is in W, 0 when there is none
LastIn(commands, W) ==
    IF \E i \in 1..Len(commands) : commands[i] \in W
    THEN CHOOSE i \in 1..Len(commands) :
             /\ commands[i] \in W
             /\ \A j \in (i + 1)..Len(commands) : commands[j] \notin W
    ELSE 0

\* f is base with the entries of payload added or overwritten, and nothing else
IsMerge(f, base, payload) ==
    /\ Keys(f) = Keys(base) \cup Keys(payload)
    /\ Len(f) = Cardinality(Keys(f))
    /\ \A k \in Keys(f) :
           Get(f, k) = IF Has(payload, k) THEN Get(payload, k) ELSE Get(base, k)

HarnessDone == rpc = "done"

\* C1: in the commands-list reducer, an action holding a reset-triggering command
\* leaves page equal to the page of the action payload, whatever the prior page.
C1_PageEqualsPayloadPage ==
    (HarnessDone /\ HasCommands(raction)
                 /\ Members(raction.commands) \cap ResetTriggering # {})
        => rresult.page = raction.page

ResetCalls ==
    {"setLimit", "setSort", "clearSort", "setOrder", "toggleOrder", "clearOrder",
     "replaceFilter", "clearFilter"}

\* C2: after each of the eight query-changing calls of the DataGrid, page is
\* initialPage when resetPageOnQueryChange is true and the prior page when it is
\* false; after setPage(p), page is p.
C2_ImperativePageReset ==
    /\ lastCall \in ResetCalls =>
           state.page = IF resetPageOnQueryChange THEN initialPage ELSE prev.page
    /\ lastCall = "setPage" => state.page = lastAction.page

C2_Witness ==
    /\ lastCall = "setLimit"
    /\ resetPageOnQueryChange
    /\ prev.page # initialPage
    /\ state.page = initialPage
    /\ state.limit # prev.limit

\* C3: a single-key filter edit (setFilter, removeFilter) resets page to initialPage
\* when resetPageOnQueryChange is true and leaves page unchanged when it is false.
C3_SingleFilterEditResetsPage ==
    lastCall \in {"setFilter", "removeFilter"} =>
        state.page = IF resetPageOnQueryChange THEN initialPage ELSE prev.page

\* C4: an action with several commands applies every member's update in list order
\* and then, when a member is reset-triggering, sets page to the reset value as the
\* last step: SetPage together with a reset-triggering command ends on the reset
\* page, and without a reset-triggering member page is what the updates left.
C4_ResetAppliedLast ==
    (HarnessDone /\ HasCommands(raction)) =>
        LET cs == raction.commands
            reset == Members(cs) \cap ResetTriggering # {}
            iSort == LastIn(cs, {"SetSort", "ClearSort"})
            iOrder == LastIn(cs, {"SetOrder", "ToggleOrder", "ClearOrder"})
            iWhole == LastIn(cs, {"ReplaceFilter", "ClearFilter"})
            base == IF iWhole = 0 THEN rstate.filter
                    ELSE IF cs[iWhole] = "ReplaceFilter" THEN raction.filter
                    ELSE << >>
            merged == \E j \in (iWhole + 1)..Len(cs) :
                          cs[j] \in {"SetFilter", "RemoveFilter"}
        IN  /\ rresult.page =
                   IF reset THEN DEFAULT_PAGE
                   ELSE IF "SetPage" \in Members(cs) THEN raction.page
                   ELSE rstate.page
            /\ rresult.limit =
                   IF "SetLimit" \in Members(cs) THEN raction.limit ELSE rstate.limit
            /\ rresult.sort =
                   IF iSort = 0 THEN rstate.sort
                   ELSE IF cs[iSort] = "SetSort" THEN raction.sort
                   ELSE NULL
            /\ rresult.order =
                   IF iOrder = 0 THEN rstate.order
                   ELSE IF cs[iOrder] = "ClearOrder" THEN NULL
                   ELSE raction.order
            /\ IF merged THEN IsMerge(rresult.filter, base, raction.filter)
               ELSE rresult.filter = base

C4_Witness ==
    /\ HarnessDone
    /\ HasCommands(raction)
    /\ raction.commands = <<"SetPage", "SetLimit">>
    /\ raction.page # DEFAULT_PAGE
    /\ rstate.page # DEFAULT_PAGE
    /\ rresult.page = DEFAULT_PAGE
    /\ rresult.limit = raction.limit

\* the lists that hold the same commands as cs, in any order and with any repetition
Reorderings(cs) ==
    {cs2 \in SeqsUpTo(Members(cs), MaxCommands) : Members(cs2) = Members(cs)}

Reordered(cs2) ==
    Query(DataGridReducerCommands(rstate, [raction EXCEPT !.commands = cs2]))

\* C5 as stated: the commands of an action form a set; any two orderings (and any
\* repetition) of the same commands give the same page, limit, sort, order and filter.
C5_OrderIndependent ==
    (HarnessDone /\ HasCommands(raction)) =>
        \A cs2 \in Reorderings(raction.commands) : Reordered(cs2) = Query(rresult)

\* C5 as amended: any two orderings of the same commands give the same page and
\* limit; they give the same sort unless the list holds both SetSort and ClearSort,
\* the same order unless it holds ClearOrder with SetOrder or ToggleOrder, and the
\* same filter unless it holds two of the three kinds of filter command (merge by
\* SetFilter or RemoveFilter, ReplaceFilter, ClearFilter).
C5_OrderIndependentUnlessConflict ==
    (HarnessDone /\ HasCommands(raction)) =>
        LET m == Members(raction.commands)
            sortConflict == {"SetSort", "ClearSort"} \subseteq m
            orderConflict ==
                "ClearOrder" \in m /\ m \cap {"SetOrder", "ToggleOrder"} # {}
            kinds == {k \in {{"SetFilter", "RemoveFilter"}, {"ReplaceFilter"},
                             {"ClearFilter"}} : k \cap m # {}}
            filterConflict == Cardinality(kinds) > 1
        IN  \A cs2 \in Reorderings(raction.commands) :
                LET q == Reordered(cs2)
                IN  /\ q.page = rresult.page
                    /\ q.limit = rresult.limit
                    /\ sortConflict \/ q.sort = rresult.sort
                    /\ orderConflict \/ q.order = rresult.order
                    /\ filterConflict \/ q.filter = rresult.filter

C5_Witness ==
    /\ HarnessDone
    /\ HasCommands(raction)
    /\ raction.commands = <<"SetFilter", "SetLimit">>
    /\ rresult.limit # rstate.limit
    /\ rresult.filter # rstate.filter
    /\ Reordered(<<"SetLimit", "SetFilter">>) = Query(rresult)

\* C6: starting from an absent order, three successive toggleOrder calls give
\* asc, then desc, then absent, whether or not sort is set, and toggleOrder never
\* changes sort.
C6_ToggleCycle ==
    /\ Len(orderRun) <= 3
    /\ \A i \in 1..Len(orderRun) : orderRun[i] = <<"asc", "desc", NULL>>[i]
    /\ lastCall = "toggleOrder" => state.sort = prev.sort

C6_Witness ==
    /\ lastCall = "toggleOrder"
    /\ Len(orderRun) = 3
    /\ state.order = NULL
    /\ state.sort = "name"

\* C7: reducing ToggleOrder sets order from the prior state's order alone (asc to
\* desc, desc to absent, anything else to asc), whatever the payload holds.
C7_ToggleFromPriorOrder ==
    (HarnessDone /\ raction.command = "ToggleOrder") =>
        IF rstate.order = "asc" THEN rresult.order = "desc"
        ELSE IF rstate.order = "desc" THEN rresult.order \in {NULL, UNDEFINED}
        ELSE rresult.order = "asc"

\* C8: SetFilter with payload {k: v} gives a filter where k maps to v and every
\* other key keeps its prior value, no other key is added or removed, and limit,
\* sort and order are unchanged.
C8_SetFilterMergesOneKey ==
    lastCall = "setFilter" =>
        LET k == lastAction.filter[1].k
            v == lastAction.filter[1].v
        IN  /\ Has(state.filter, k) /\ Get(state.filter, k) = v
            /\ Keys(state.filter) = Keys(prev.filter) \cup {k}
            /\ Len(state.filter) = Cardinality(Keys(state.filter))
            /\ \A k2 \in Keys(prev.filter) \ {k} :
                   Get(state.filter, k2) = Get(prev.filter, k2)
            /\ state.limit = prev.limit
            /\ state.sort = prev.sort
            /\ state.order = prev.order

C8_Witness ==
    /\ lastCall = "setFilter"
    /\ lastAction.filter[1].k = "tags"
    /\ Has(prev.filter, "tags")
    /\ Get(prev.filter, "tags") # Get(state.filter, "tags")
    /\ Has(prev.filter, "name")
    /\ Get(state.filter, "name") = Str("a")

\* C9: after RemoveFilter(k) the key k is absent from the filter of the new state.
C9_RemoveFilterDeletesKey ==
    lastCall = "removeFilter" => ~Has(state.filter, lastAction.filter[1].k)

\* C10: ReplaceFilter gives a filter equal to the payload map and ClearFilter gives
\* the empty filter, for every prior filter; both leave limit, sort and order alone.
C10_ReplaceAndClearFilter ==
    HarnessDone =>
        /\ raction.command = "ReplaceFilter" =>
               /\ rresult.filter = raction.filter
               /\ rresult.limit = rstate.limit
               /\ rresult.sort = rstate.sort
               /\ rresult.order = rstate.order
        /\ raction.command = "ClearFilter" =>
               /\ rresult.filter = << >>
               /\ rresult.limit = rstate.limit
               /\ rresult.sort = rstate.sort
               /\ rresult.order = rstate.order

C10_Witness ==
    /\ HarnessDone
    /\ raction.command = "ReplaceFilter"
    /\ Has(rstate.filter, "city")
    /\ raction.filter # << >>
    /\ ~Has(rresult.filter, "city")
    /\ rresult.filter = raction.filter

\* the page, limit, sort, order and filter a grid is constructed with when no
\* prop overrides them
InitialDefaults ==
    [page |-> DEFAULT_PAGE, limit |-> DEFAULT_LIMIT, sort |-> DEFAULT_SORT,
     order |-> DEFAULT_ORDER, filter |-> DEFAULT_FILTER]

\* C11: reducing ClearAll resets page, limit, sort, order and filter to the
\* initial defaults, for every prior state.
C11_ClearAllResets ==
    (HarnessDone /\ HasCommands(raction) /\ raction.commands = <<"ClearAll">>)
        => Query(rresult) = InitialDefaults

\* the commands the forEach switch has no case for
Unrecognized == DataGridCommand \ {"SetPage", "SetLimit", "SetSort", "SetOrder",
                                   "ToggleOrder", "SetFilter", "RemoveFilter",
                                   "ReplaceFilter", "ClearFilter", "ClearOrder",
                                   "ClearSort"}

CleanDone == cpc = "done"

\* C15: sanitizing is idempotent: for every filter object and every subset of the
\* four passes, applied in the order null, undefined, string, array, applying the
\* same passes again to the result leaves it unchanged.
C15_SanitizeIdempotent ==
    CleanDone => Sanitize(cout, cflags) = cout

C15_Witness ==
    /\ CleanDone
    /\ cflags = AllFlags
    /\ cin = <<Entry("tags", Arr(<<Str(""), Null>>)), Entry("name", Str("NY"))>>
    /\ cout = <<Entry("name", Str("NY"))>>

\* the elements of an array that are not null, undefined or the empty string
Meaningful(a) == SelectSeq(a, LAMBDA v : v \notin {Null, Undef, Str("")})

\* a value the four passes together keep
Survives(v) ==
    /\ v \notin {Null, Undef, Str("")}
    /\ IsArray(v) => Meaningful(v.a) # << >>

\* C16: with all four flags on, the sanitized filter holds exactly the keys of the
\* input whose value is not null, not undefined, not the empty string and not an
\* array that is empty once its null, undefined and empty-string elements are
\* removed, in the input's key order; kept scalars are unchanged and kept arrays
\* hold their remaining elements in order.
C16_SanitizeAllFlags ==
    (CleanDone /\ cflags = AllFlags) =>
        LET kept == SelectSeq(cin, LAMBDA e : Survives(e.v))
        IN  /\ Len(cout) = Len(kept)
            /\ \A i \in 1..Len(kept) :
                   /\ cout[i].k = kept[i].k
                   /\ IF IsArray(kept[i].v)
                      THEN /\ IsArray(cout[i].v)
                           /\ cout[i].v.a = Meaningful(kept[i].v.a)
                      ELSE cout[i].v = kept[i].v

C16_Witness ==
    /\ CleanDone
    /\ cflags = AllFlags
    /\ cin = <<Entry("name", Str("")), Entry("tags", Arr(<< >>)), Entry("id", Null),
               Entry("note", Undef), Entry("city", Str("NY"))>>
    /\ cout = <<Entry("city", Str("NY"))>>

\* the calls made for a key, as indices into `calls`
CallsFor(key) == {i \in 1..Len(calls) : calls[i].key = key}

\* the callbacks run for a key, as indices into `ran`
RanFor(key) == {j \in 1..Len(ran) : ran[j].key = key}

\* every call for the key after the first was made before the delay of the call
\* before it had elapsed
OneBurst(key) ==
    \A i \in CallsFor(key) : (\E h \in CallsFor(key) : h < i) => calls[i].early

LastCall(key) == CHOOSE i \in CallsFor(key) : \A h \in CallsFor(key) : h <= i

Coalesced(key) ==
    (CallsFor(key) # {} /\ OneBurst(key)) =>
        /\ Cardinality(RanFor(key)) <= 1
        /\ \A j \in RanFor(key) :
               /\ ran[j].callback = LastCall(key)
               /\ ran[j].age >= calls[LastCall(key)].delay
        /\ Pending(key) = {} => Cardinality(RanFor(key)) = 1

\* C17: when debounce is called one or more times for a key, each call before the
\* delay of the previous call has elapsed, none of the earlier callbacks ever runs,
\* the callback of the last call runs exactly once, no earlier than its delay after
\* that call, and in the end no timer is left waiting.
C17_DebounceCoalescing ==
    /\ [](\A key \in DebounceKeys : Coalesced(key))
    /\ <>[](timers = {})

C17_Witness ==
    /\ Len(calls) = 3
    /\ \A i \in 1..3 : calls[i].key = "name"
    /\ calls[2].early /\ calls[3].early
    /\ calls[3].delay = 2
    /\ timers = {}
    /\ ran = <<[callback |-> 3, key |-> "name", age |-> 2]>>

\* the number of the latest render: 0 is the mount, n the n-th transition
Transition == Len(effects) - 1

\* the onChange calls that belong to transition n, as indices into onChangeCalls
CallsOf(n) == {j \in 1..Len(onChangeCalls) : onChangeCalls[j].transition = n}

\* the key and the value of the last setFilter call
LastKey == lastAction.filter[1].k

LastValue == lastAction.filter[1].v

\* two filter values are the same value (arrays: the same elements)
SameValue(v, w) == IF IsArray(v) /\ IsArray(w) THEN v.a = w.a ELSE v = w

\* C18: after a setFilter(k, v) that changes the value stored under k, where the
\* column k declares debounce > 0, onChange is not called synchronously for that
\* transition, and while no further command is dispatched it is called at most
\* once, and once the delay has passed exactly once, with the details of the new
\* state (whose filter holds the sanitized value for k).
C18_DebouncedSetFilter ==
    (/\ lastCall = "setFilter"
     /\ DebounceOf(columns, LastKey) > 0
     /\ ~SameValue(Get(prev.filter, LastKey), LastValue)) =>
        /\ \A j \in CallsOf(Transition) :
               /\ ~onChangeCalls[j].sync
               /\ onChangeCalls[j].details = Details(state, clear)
        /\ Cardinality(CallsOf(Transition)) <= 1
        /\ Pending(LastKey) = {} => Cardinality(CallsOf(Transition)) = 1

\* C19: a setFilter(k, v) on a column without debounce (absent or 0) calls onChange
\* synchronously, exactly once, with the merged and sanitized filter (the prior
\* keys plus k), also while a debounced call for another key is pending.
C19_PlainSetFilterIsSync ==
    (lastCall = "setFilter" /\ DebounceOf(columns, LastKey) = 0) =>
        /\ Cardinality(CallsOf(Transition)) = 1
        /\ \A j \in CallsOf(Transition) :
               /\ onChangeCalls[j].sync
               /\ "filter" \in DOMAIN onChangeCalls[j].details
               /\ Content(onChangeCalls[j].details.filter) =
                      Content(Sanitize(Spread(prev.filter, lastAction.filter), clear))

\* transition n handed its onChange call to debounce and a later transition did
\* the same for the same key
Superseded(n) ==
    \E n2 \in (n + 1)..Transition :
        /\ effects[n2 + 1].mode = "delayed"
        /\ effects[n2 + 1].key = effects[n + 1].key

\* C20: every render (the mount and each dispatched transition) causes at most one
\* onChange call: one synchronous call, or one delayed call, or none when its
\* delayed call is superseded by a later schedule for the same key; the number of
\* onChange calls never exceeds the number of transitions plus one.
C20_AtMostOneOnChange ==
    /\ Len(onChangeCalls) <= Len(effects)
    /\ \A n \in 0..Transition :
           /\ Cardinality(CallsOf(n)) <= 1
           /\ \A j \in CallsOf(n) :
                  onChangeCalls[j].sync <=> effects[n + 1].mode = "sync"
           /\ effects[n + 1].mode = "sync" => CallsOf(n) # {}
           /\ (timers = {} /\ CallsOf(n) = {}) =>
                  (effects[n + 1].mode = "delayed" /\ Superseded(n))

C20_Witness ==
    /\ Transition = 2
    /\ effects[2].mode = "delayed"
    /\ effects[3].mode = "delayed"
    /\ effects[2].key = effects[3].key
    /\ timers = {}
    /\ CallsOf(1) = {}
    /\ Len(onChangeCalls) = 2
    /\ ~onChangeCalls[2].sync
    /\ onChangeCalls[2].transition = 2

\* C13: the reducer never changes the state object it is given, nor the filter
\* object or the arrays reachable from it: a state object kept before a transition
\* has the content it had when it was kept, after any later transitions.
C13_ReducerInputUnchanged ==
    snapRef # 0 => Deep(heap, snapRef) = snapshot

C13_Witness ==
    /\ snapRef # 0
    /\ snapRef # stateRef
    /\ dispatched = 2
    /\ snapshot.filter = <<Entry("tags", Arr(<<Null, Str("y")>>)), Entry("name", Str("b"))>>
    /\ Deep(heap, stateRef).filter = <<Entry("tags", Arr(<< >>)), Entry("name", Str("a"))>>
    /\ Deep(heap, snapRef) = snapshot

\* C14: building and sanitizing the details never changes the stored state: after
\* the change effect has run, under any combination of the four clear flags, the
\* stored state holds exactly the query the reducer returned, with its null,
\* undefined, empty-string and empty-array values and its unfiltered arrays.
C14_EffectKeepsStoredState ==
    Query(Deep(heap, stateRef)) = produced

C14_Witness ==
    /\ dispatched > 0
    /\ clear = AllFlags
    /\ detailsRef # 0
    /\ detailsRef # heap[stateRef].filter
    /\ Content(Load(heap, detailsRef)) = <<Entry("tags", Arr(<<Str("y")>>))>>
    /\ produced.filter = <<Entry("tags", Arr(<<Null, Str("y")>>)), Entry("name", Str(""))>>
    /\ Query(Deep(heap, stateRef)) = produced

\* C27: after a setFilter(k, v) that changes the value stored under k, the key the
\* change effect obtains from extractChangedKey, under which it looks up the
\* debounce of the column and schedules the call, is k, whatever the prior filter.
C27_ChangedKeyIsSetKey ==
    (/\ lastCall = "setFilter"
     /\ ~SameValue(Get(prev.filter, LastKey), LastValue)) =>
        effects[Len(effects)].key = LastKey

\* a details object without the identities of its arrays
DetailsContent(details) ==
    IF "filter" \in DOMAIN details
    THEN [details EXCEPT !.filter = Content(details.filter)]
    ELSE details

\* C28: quiescence.  Once every pending debounce timer has run, the details of the
\* most recent onChange call are those of the current state: page, limit, sort,
\* order and sanitized filter.
C28_QuiescentDetailsAreCurrent ==
    (timers = {} /\ onChangeCalls # << >>) =>
        DetailsContent(onChangeCalls[Len(onChangeCalls)].details) =
            DetailsContent(Details(state, clear))

\* C29: every details object passed to onChange has page and limit, has sort and
\* order only when they are neither null nor undefined, and has a filter field
\* only when that filter has at least one key.
C29_DetailsFields ==
    \A j \in 1..Len(onChangeCalls) :
        LET details == onChangeCalls[j].details
        IN  /\ "page" \in DOMAIN details
            /\ "limit" \in DOMAIN details
            /\ "sort" \in DOMAIN details => details.sort \notin {NULL, UNDEFINED}
            /\ "order" \in DOMAIN details => details.order \notin {NULL, UNDEFINED}
            /\ "filter" \in DOMAIN details => details.filter # << >>

\* C30: only a SetFilter transition can be delayed.  The transition of any other
\* command calls onChange synchronously, exactly once, whatever debounce the
\* columns declare and whatever calls are pending.
C30_OnlySetFilterIsDelayed ==
    \A n \in 1..Transition :
        effects[n + 1].command # "SetFilter" =>
            /\ effects[n + 1].mode = "sync"
            /\ Cardinality(CallsOf(n)) = 1
            /\ \A j \in CallsOf(n) : onChangeCalls[j].sync

\* a ClearFilter transition notifies at once while a debounced call is pending
C30_Witness ==
    /\ Transition = 2
    /\ effects[2].mode = "delayed"
    /\ effects[3].command = "ClearFilter"
    /\ lastCall = "clearFilter"
    /\ timers # {}
    /\ CallsOf(1) = {}
    /\ \E j \in CallsOf(2) : onChangeCalls[j].sync

\* the value under key k of the dependency d, undefined when d has no such key
ValueAt(d, k) == IF d = None THEN Undef ELSE Get(FromEntries(d[1]), k)

\* the positions, in the order the keys of `next` were added, of the keys whose
\* value differs from that of `prev`; when prev is absent every key differs
Differing ==
    IF fnArgs[2] = None THEN {}
    ELSE {i \in 1..Len(fnArgs[2][1]) :
             \/ fnArgs[1] = None
             \/ ValueAt(fnArgs[1], fnArgs[2][1][i].k) # fnArgs[2][1][i].v}

\* C22: extractChangedKey([prev, next]) returns the first key of next, in the
\* order the keys were inserted, whose value differs from prev's value under that
\* key, and null when no key of next differs; a key only prev has is not reported.
C22_FirstChangedKeyInInsertionOrder ==
    fnPc = "done" =>
        fnResult = IF Differing = {} THEN NULL
                   ELSE fnArgs[2][1][CHOOSE i \in Differing :
                                        \A j \in Differing : i <= j].k

LatestOfInstance(i) ==
    \A h \in (i + 1)..Len(calls) :
        ~(calls[h].instance = calls[i].instance /\ calls[h].key = calls[i].key)

\* C21: two components that use the same column key do not interfere.  The
\* notification a component has pending for a key stays pending until it runs,
\* whatever the other component schedules for that key, and it runs when its own
\* delay has passed.
C21_InstancesDoNotInterfere ==
    \A i \in 1..Len(calls) :
        LatestOfInstance(i) =>
            \/ \E tm \in timers : tm.callback = i
            \/ \E j \in 1..Len(ran) :
                   ran[j].callback = i /\ ran[j].age = calls[i].delay

\* the positions of the present candidates of a context argument
Present(context) ==
    IF context = None THEN {}
    ELSE {i \in 1..Len(context[1]) : context[1][i] # UNDEFINED}

\* C23: in every render the hook returns the first present candidate of the
\* list it is given in that render, and the internal source when the list is
\* absent, empty or holds only absent slots; what an earlier render returned
\* plays no part, and the internal source is not returned while an external
\* one is present.
C23_FirstPresentSource ==
    \A r \in 1..Len(fnArgs) :
        LET context == fnArgs[r].arg
        IN  IF Present(context) = {}
            THEN fnResult[r] = internalReducer
            ELSE /\ fnResult[r] # internalReducer
                 /\ \E i \in Present(context) :
                        /\ \A j \in Present(context) : i <= j
                        /\ fnResult[r] = context[1][i]

\* an external source is returned from behind an absent slot, and after it is
\* withdrawn the next render returns the internal source
C23_Witness ==
    /\ Len(fnArgs) = 2
    /\ fnArgs[1] = [hook |-> "useDataGridMerge",
                    arg |-> Some(<<UNDEFINED, "external2">>)]
    /\ fnResult[1] = "external2"
    /\ fnArgs[2] = [hook |-> "useDataGridMerge", arg |-> Some(<<UNDEFINED>>)]
    /\ fnResult[2] = internalReducer

\* C26 as stated: useDataGrid and useDataGridStore throw a ReferenceError when
\* their context is null or undefined, and return the context itself otherwise.
C26_ThrowsOrReturnsContext ==
    fnPc = "done" =>
        fnResult = IF Falsy(fnArgs.context)
                   THEN Throw("ReferenceError")
                   ELSE Return(fnArgs.context)

\* C26, amended: both hooks throw a ReferenceError when their context is null or
\* undefined, and never give a result in that case; otherwise useDataGrid returns
\* the context itself and useDataGridStore returns what the selector picks from
\* the state of the store that the context holds.
C26_ThrowsOrReturnsSelected ==
    fnPc = "done" =>
        IF fnArgs.context \in {Null, Undef}
        THEN fnResult = [threw |-> "ReferenceError"]
        ELSE /\ fnArgs.hook = "useDataGrid" => fnResult = [returned |-> fnArgs.context]
             /\ fnArgs.hook = "useDataGridStore" =>
                    LET s == fnArgs.context.state
                    IN  fnResult = [returned |->
                                       IF fnArgs.selector = "store" THEN s
                                       ELSE IF fnArgs.selector = "sort" THEN s.sort
                                       ELSE s.order]

\* useDataGridStore was called outside a provider and threw
C26_Witness ==
    /\ fnPc = "done"
    /\ fnArgs.hook = "useDataGridStore"
    /\ fnArgs.context = Null
    /\ fnResult = [threw |-> "ReferenceError"]

\* the callbacks of the last operation that are calls of the given callback
Invoked(callback) == {j \in 1..Len(dsCalls) : dsCalls[j].callback = callback}

\* C25: in DataSource every change of the stored selection comes with an onSelect
\* call that carries the new selection, whichever operation caused it; and
\* setSelected calls onSelect in the handler and never calls onChange.
C25_SelectionChangeCallsOnSelect ==
    /\ DataSourceMounted =>
           (dsStore.selected # dsBefore.selected =>
               \E j \in Invoked("onSelect") : dsCalls[j].arg = dsStore.selected)
    /\ dsOp = "setSelected" =>
           /\ Invoked("onSelect") # {}
           /\ Invoked("onChange") = {}

\* the passes called so far
Called == {cpasses[i] : i \in 1..Len(cpasses)}

\* the flags that enable exactly the passes called so far
CalledFlags ==
    [clearNullable |-> "null" \in Called, clearUndefined |-> "undefined" \in Called,
     clearEmptyString |-> "string" \in Called, clearEmptyArray |-> "array" \in Called]

\* C31: the null, undefined and empty-string passes commute: whatever subset of
\* them is called, in whatever order, the object ends as it does in the order
\* null, undefined, string; none of the three removes a key that holds an array,
\* even when the array becomes empty; and when the empty-array pass is called
\* last no key is left with an empty array.
C31_PassesCommute ==
    cpc = "passes" =>
        /\ "array" \notin Called =>
               /\ cout = Sanitize(cin, CalledFlags)
               /\ \A i \in 1..Len(cin) : IsArray(cin[i].v) => Has(cout, cin[i].k)
        /\ (cpasses # << >> /\ cpasses[Len(cpasses)] = "array") =>
               \A i \in 1..Len(cout) : ~(IsArray(cout[i].v) /\ cout[i].v.a = << >>)

C31_Witness ==
    /\ cpasses = <<"string", "null", "array">>
    /\ cin = <<Entry("tags", Arr(<<Str(""), Null>>)), Entry("name", Str("NY"))>>
    /\ cout = <<Entry("name", Str("NY"))>>

\* the keys of `next` as for...in visits them, and those among them whose value
\* is not the very value prev holds (for an array: not the same array)
NextKeys ==
    IF fnArgs[2] = None THEN << >>
    ELSE [i \in 1..Len(FromEntries(fnArgs[2][1])) |-> FromEntries(fnArgs[2][1])[i].k]

NotSame ==
    {i \in 1..Len(NextKeys) :
        ValueAt(fnArgs[1], NextKeys[i]) # ValueAt(fnArgs[2], NextKeys[i])}

\* C32: extractChangedKey compares arrays by identity: a key under which prev and
\* next both hold an array counts as changed unless the two are the same array
\* (two arrays of different lengths are never the same array), a key with any
\* other value counts as changed exactly when the values are not strictly
\* equal; the first key that counts as changed is returned, null when there is
\* none; when prev is absent the first key of next is returned, and null when
\* next has no keys.
C32_ArraysByIdentity ==
    fnPc = "done" =>
        IF fnArgs[1] = None
        THEN fnResult = IF NextKeys = << >> THEN NULL ELSE NextKeys[1]
        ELSE fnResult = IF NotSame = {} THEN NULL
                        ELSE NextKeys[CHOOSE i \in NotSame :
                                         \A j \in NotSame : i <= j]

C32_Witness ==
    /\ fnPc = "done"
    /\ fnArgs[1] = Some(<<Entry("a", ArrAt(<<1>>, <<Str("x")>>)), Entry("b", Str("1"))>>)
    /\ fnArgs[2] = Some(<<Entry("b", Str("1")), Entry("a", ArrAt(<<2>>, <<Str("x")>>))>>)
    /\ fnResult = "a"

\* C33: whatever debounce calls and timer firings have happened, callbacks that
\* call debounce for their own key and callbacks that throw included,
\* DEBOUNCE_HASH_MAP has an entry for a key exactly when a timer of that key is
\* pending, and at most one timer of a key is pending.
C33_MapMatchesPendingTimers ==
    \A key \in DebounceKeys :
        /\ key \in DOMAIN DEBOUNCE_HASH_MAP <=> Pending(key) # {}
        /\ Cardinality(Pending(key)) <= 1

\* a step that is a call of debounce leaves the timers of the other keys as they are
OtherKeysKept ==
    Len(calls') > Len(calls) =>
        \A key \in DebounceKeys \ {calls'[Len(calls')].key} :
            /\ Pending(key)' = Pending(key)
            /\ key \in DOMAIN DEBOUNCE_HASH_MAP' <=> key \in DOMAIN DEBOUNCE_HASH_MAP

\* the callback of the last call for the key has run exactly once
LastCallRanOnce(key) ==
    Cardinality({j \in RanFor(key) : ran[j].callback = LastCall(key)}) = 1

\* C34: debounce keys are independent: a call of debounce for one key neither
\* cancels nor postpones the pending timer of another key; no callback runs
\* earlier than its delay after its call; and once the calls have stopped, the
\* callback of the last call of every key runs exactly once.
C34_KeysAreIndependent ==
    /\ [][OtherKeysKept]_vars
    /\ [](\A j \in 1..Len(ran) : ran[j].age >= calls[ran[j].callback].delay)
    /\ <>[](\A key \in DebounceKeys : CallsFor(key) # {} => LastCallRanOnce(key))

C34_Witness ==
    /\ calls = <<[key |-> "name", delay |-> 2, early |-> FALSE],
                 [key |-> "tags", delay |-> 1, early |-> FALSE]>>
    /\ timers = {}
    /\ ran = <<[callback |-> 2, key |-> "tags", age |-> 1],
               [callback |-> 1, key |-> "name", age |-> 2]>>

\* the states a DataSource store can hold here
DataSourceDomain ==
    [page : 1..MaxPage, limit : {DATAGRID_DEFAULT_LIMIT}, sort : {NULL, "name"},
     order : {NULL, SORT_ASC, SORT_DESC}, filter : DataSourceFilters,
     selected : DataSourceSelections]

\* every column's deriveState is idempotent: f(f(s)) = f(s)
ColumnsIdempotent ==
    \A i \in 1..Len(dsProps.columns) :
        "deriveState" \in DOMAIN dsProps.columns[i] =>
            \A s \in DataSourceDomain :
                deriveState(dsProps.columns[i].deriveState,
                            deriveState(dsProps.columns[i].deriveState, s))
                    = deriveState(dsProps.columns[i].deriveState, s)

\* C35: when every column's deriveState is idempotent, the derive-and-sync effect
\* of DataSource terminates: from any stored state, after finitely many syncs
\* the stored state equals its own derivation and shouldChange is false, so that
\* no onChange follows until the next call.
C35_SyncTerminates ==
    (DataSourceMounted /\ ColumnsIdempotent) ~> DataSourceIdle

\* C36: in DataSource, when every column's deriveState is idempotent, a call of
\* setPagination, setSorting, setFilter, setState or clear stores a state that is
\* its own derivation and invokes onChange exactly once, with the stored state;
\* the sync effect adds no second onChange.
C36_HandlersStoreDerivedState ==
    (/\ dsOp \in {"setPagination", "setSorting", "setFilter", "setState", "clear"}
     /\ ColumnsIdempotent) =>
        /\ ~shouldChange(dsStore, dsProps.columns)
        /\ Cardinality(Invoked("onChange")) = 1
        /\ \A j \in Invoked("onChange") : dsCalls[j].arg = dsStore

\* C37: with initialPage = 1, size > 0 and resetPageOnQueryChange true, after any
\* sequence of nextPage, prevPage, setLimit, setSort, setOrder, toggleOrder and
\* filter calls the page is at least 1 and (page - 1) * limit < size: the page
\* never drops below 1 and never points past the last page.
C37_PageWithinRange ==
    (initialPage = 1 /\ size > 0 /\ resetPageOnQueryChange) =>
        /\ state.page >= 1
        /\ (state.page - 1) * state.limit < size

C37_Witness ==
    /\ initialPage = 1
    /\ resetPageOnQueryChange
    /\ lastCall = "setLimit"
    /\ prev.page = 2
    /\ prev.limit = DEFAULT_LIMIT
    /\ state.page = 1
    /\ state.limit = 2 * DEFAULT_LIMIT

\* the column derivations applied to a state
Derived(rawState) == calculateDerivedState(rawState, dsProps.columns)

\* the page after a change of the query
QueryChangePage ==
    IF dsProps.resetPageOnQueryChange THEN DATAGRID_DEFAULT_PAGE ELSE dsStore.page

\* a step that is a call of one of the four setters stores the column derivations
\* of the state before with only the setter's fields replaced
SetterFrame ==
    DataSourceIdle =>
        /\ dsOp' = "setPagination" =>
               dsStore' = Derived([dsStore EXCEPT !.page = dsArgs'.page,
                                                  !.limit = dsArgs'.limit])
        /\ dsOp' = "setSorting" =>
               dsStore' = Derived([dsStore EXCEPT !.page = QueryChangePage,
                                                  !.sort = dsArgs'.sort,
                                                  !.order = dsArgs'.order])
        /\ dsOp' = "setFilter" =>
               dsStore' = Derived([dsStore EXCEPT !.page = QueryChangePage,
                                                  !.filter = dsArgs'.filter])
        /\ dsOp' = "setSelected" =>
               dsStore' = Derived([dsStore EXCEPT !.selected = dsArgs'.selected])

\* C38: in DataSource, setSorting and setFilter set page to 1 when
\* resetPageOnQueryChange is true and leave it unchanged when it is false;
\* setPagination stores the page it is given and setSelected leaves the page
\* alone; each of the four changes only its own fields (page and limit, sort
\* and order, filter, selected) apart from that reset and the column derivations.
C38_SettersChangeOwnFields == [][SetterFrame]_vars

C38_Witness ==
    /\ dsOp = "setSorting"
    /\ dsProps.resetPageOnQueryChange
    /\ dsArgs = [sort |-> "name", order |-> SORT_ASC]
    /\ dsBefore.page = 2
    /\ dsBefore.sort = NULL
    /\ dsStore.page = DATAGRID_DEFAULT_PAGE
    /\ dsStore.sort = "name"
    /\ dsStore.filter = dsBefore.filter

\* a step that is a call of clear stores the column derivations of the defaults
\* and invokes onChange and onSelect once each, with what it stored
ClearStep ==
    (DataSourceIdle /\ dsOp' = "clear") =>
        /\ dsStore' = Derived([page |-> 1, limit |-> 10, sort |-> NULL,
                               order |-> NULL, filter |-> << >>,
                               selected |-> << >>])
        /\ dsCalls' = <<CallOnChange(dsStore'), CallOnSelect(dsStore'.selected)>>

====
